---- MODULE Spec2Model ----
(***************************************************************************)
(* Persistence and cross-process locking layer of `trace`:                 *)
(*   storage_impl/lock_manager.py  LockManager (marker file app.lock)      *)
(*   storage_impl/storage.py       Storage (snapshot file data.json)       *)
(*   storage_impl/state_manager.py StateManager (pointer file `state`)     *)
(*   cli.py                        the one-shot commands that use them     *)
(*                                                                         *)
(* A process is one OS process with its own pid and one LockManager        *)
(* instance.  Files are shared by all processes.  Time is counted in       *)
(* sleeps of acquire(): time.sleep(0.1) is the only place where acquire()  *)
(* waits, so `timeout` is measured in sleep ticks.                         *)
(***************************************************************************)
EXTENDS Naturals, Sequences, FiniteSets

\* Number of processes (pids 1..NumProcs).
NumProcs == 3

\* acquire(timeout): number of 0.1 s sleeps that fit in the timeout.
TimeoutTicks == 2

Procs == 1 .. NumProcs

\* Processes that run a command of the program.
NumCmdProcs == 2

CmdProcs == 1 .. NumCmdProcs

\* Creator recorded for a marker file that no process of the model created.
External == 0

NoMarker == [exists |-> FALSE]

VARIABLES
    marker,     \* the lock file app.lock: NoMarker or [exists, creator, content]
    pc,         \* per process: where it is
    acquired,   \* per process: LockManager.acquired
    elapsed,    \* per process: sleeps done in the current acquire() call
    tries,      \* per process: create attempts of the acquire() call that is running or
                \* that gave p the lock: 1, 2, and 3 for "more" (2 once clean[p] = "no")
    clean       \* per process: what the marker was when acquire() was called, "no" once
                \* another process has changed the marker during the call

VARIABLES
    dataFile,   \* the snapshot file data.json: NoFile or [exists, content]
    tmpFile,    \* the temporary file data.tmp that save_data writes
    backupFile, \* the copy data.json.corrupted.<timestamp> made by _load_data
    stateFile,  \* the pointer file `state`: NoFile or [exists, content]
    stateTmp,   \* the temporary file state.tmp that set_active writes
    settingsFile,   \* the settings file settings.json
    settingsTmp,    \* the temporary file settings.tmp that set_setting writes
    cases,      \* per process: Storage.cases, the in-memory case list
    cmd,        \* per process: the command it was launched for
    how,        \* per process: how its command ended ("none" while it runs)
    before,     \* per process: the snapshot file as it was when save_data was called
    call,       \* per process: the Storage / StateManager call just made, with its
                \* arguments and its result; NoCall once the process has moved on
    host,       \* per LockManager instance: the OS process it lives in (a process is
                \* its own first instance)
    global_active   \* per process: TUI.global_active_case_id and
                    \* TUI.global_active_evidence_id, the copy of the pointer its TUI keeps

lockVars == <<marker, pc, acquired, elapsed, tries, clean>>

smVars == <<stateTmp, settingsFile, settingsTmp>>

fileVars == <<dataFile, tmpFile, backupFile, stateFile, smVars>>

appVars == <<dataFile, tmpFile, backupFile, stateFile, smVars, cases, cmd, how, before, call,
             host, global_active>>

\* Positions inside acquire().
InAcquire == {"create", "write", "probe", "unlink"}

\* An instance is alive while it and the process it lives in are.
Alive(p) == pc[p] # "dead" /\ pc[host[p]] # "dead"

\* The user a process runs as.  os.kill(pid, 0) raises PermissionError when the
\* target is alive but belongs to another user (and the caller is not root).
Uid(p) == IF p = NumProcs THEN "other" ELSE "user"

CanSignal(p, q) == Uid(host[p]) = Uid(q)

MarkerFile(creator, content) == [exists |-> TRUE, creator |-> creator, content |-> content]

\* The text of a marker file: str(os.getpid()), nothing yet, or something else.
PidText(p) == [text |-> "pid", pid |-> p]

EmptyText == [text |-> "empty"]

GarbageText == [text |-> "garbage"]

\* The text of a marker parses as a pid: int(f.read().strip()) does not raise.
ParsesAsPid(content) == content.text = "pid"

(***************************************************************************)
(* LockManager._is_stale_lock, as seen by process p.                       *)
(***************************************************************************)
IsStaleLock_DeadNotStale(p) ==
    IF ~marker.exists THEN FALSE
    ELSE IF ~ParsesAsPid(marker.content) THEN TRUE
    ELSE FALSE

IsStaleLock_GarbledNotStale(p) ==
    IF ~marker.exists THEN FALSE
    ELSE IF ~ParsesAsPid(marker.content) THEN FALSE
    ELSE IF ~Alive(marker.content.pid) THEN TRUE
    ELSE IF ~CanSignal(p, marker.content.pid) THEN TRUE
    ELSE FALSE

IsStaleLock(p) ==
    IF ~marker.exists THEN FALSE                        \* exists() is False: return False
    ELSE IF ~ParsesAsPid(marker.content) THEN TRUE      \* ValueError: return True
    ELSE IF ~Alive(marker.content.pid) THEN TRUE            \* ProcessLookupError is an OSError
    ELSE IF ~CanSignal(p, marker.content.pid) THEN TRUE     \* PermissionError is an OSError
    ELSE FALSE                                          \* os.kill succeeded

\* The while condition of acquire(): time.time() - start_time < timeout.
NextIter(el) == IF el < TimeoutTicks THEN "create" ELSE "retFalse"

\* What a marker found at the call of acquire() is.
MarkerKind ==
    IF ~marker.exists THEN "no"
    ELSE IF ~ParsesAsPid(marker.content) THEN "garbled"
    ELSE IF ~Alive(marker.content.pid) THEN "stale"
    ELSE "no"

\* Process p changed the marker file: every other process inside acquire() has
\* been interfered with.
Disturbed(p, q) == q # p /\ pc[q] \in InAcquire

Disturb(p) == [q \in Procs |-> IF Disturbed(p, q) THEN "no" ELSE clean[q]]

Forget(p, t) == [q \in Procs |-> IF Disturbed(p, q) /\ t[q] > 2 THEN 2 ELSE t[q]]

\* One more create attempt.
Count(p) ==
    IF tries[p] < 2 THEN tries[p] + 1
    ELSE IF clean[p] # "no" /\ tries[p] < 3 THEN tries[p] + 1
    ELSE tries[p]

(***************************************************************************)
(* LockManager.acquire, one action per atomic step.                        *)
(***************************************************************************)
acquire_call(p) ==
    /\ pc[p] = "idle"
    /\ ~acquired[p]
    /\ pc' = [pc EXCEPT ![p] = NextIter(0)]
    /\ elapsed' = [elapsed EXCEPT ![p] = 0]
    /\ tries' = [tries EXCEPT ![p] = 0]
    /\ clean' = [clean EXCEPT ![p] = MarkerKind]
    /\ UNCHANGED <<marker, acquired>>

\* os.open(lock_file, O_CREAT | O_EXCL | O_WRONLY)
acquire_create(p) ==
    /\ pc[p] = "create"
    /\ IF ~marker.exists
       THEN /\ marker' = MarkerFile(p, EmptyText)
            /\ pc' = [pc EXCEPT ![p] = "write"]
            /\ clean' = Disturb(p)
            /\ tries' = Forget(p, [tries EXCEPT ![p] = Count(p)])
       ELSE /\ pc' = [pc EXCEPT ![p] = "probe"]     \* FileExistsError
            /\ tries' = [tries EXCEPT ![p] = Count(p)]
            /\ UNCHANGED <<marker, clean>>
    /\ UNCHANGED <<acquired, elapsed>>

\* os.write(fd, pid); os.close(fd); self.acquired = True; return True.
\* The write goes to the file p created, which may no longer be the marker.
acquire_write(p) ==
    /\ pc[p] = "write"
    /\ IF marker.exists /\ marker.creator = p
       THEN /\ marker' = MarkerFile(p, PidText(host[p]))
            /\ clean' = Disturb(p)
            /\ tries' = Forget(p, tries)
       ELSE UNCHANGED <<marker, clean, tries>>
    /\ acquired' = [acquired EXCEPT ![p] = TRUE]
    /\ pc' = [pc EXCEPT ![p] = "retTrue"]
    /\ UNCHANGED elapsed

\* except FileExistsError: if self._is_stale_lock(): ... else time.sleep(0.1)
acquire_probe(p) ==
    /\ pc[p] = "probe"
    /\ IF IsStaleLock(p)
       THEN /\ pc' = [pc EXCEPT ![p] = "unlink"]
            /\ UNCHANGED elapsed
       ELSE /\ elapsed' = [elapsed EXCEPT ![p] = elapsed[p] + 1]
            /\ pc' = [pc EXCEPT ![p] = NextIter(elapsed[p] + 1)]
    /\ UNCHANGED <<marker, acquired, tries, clean>>

\* self.lock_file.unlink() (FileNotFoundError ignored); continue
acquire_unlink(p) ==
    /\ pc[p] = "unlink"
    /\ marker' = NoMarker
    /\ clean' = IF marker.exists THEN Disturb(p) ELSE clean
    /\ tries' = IF marker.exists THEN Forget(p, tries) ELSE tries
    /\ pc' = [pc EXCEPT ![p] = NextIter(elapsed[p])]
    /\ UNCHANGED <<acquired, elapsed>>

\* The caller of acquire() has its result and goes on.
acquire_return(p) ==
    /\ pc[p] \in {"retTrue", "retFalse"}
    /\ pc' = [pc EXCEPT ![p] = "idle"]
    /\ elapsed' = [elapsed EXCEPT ![p] = 0]
    /\ tries' = [tries EXCEPT ![p] = IF pc[p] = "retFalse" THEN 0
                                    ELSE IF tries[p] > 2 THEN 2 ELSE tries[p]]
    /\ clean' = [clean EXCEPT ![p] = "no"]
    /\ UNCHANGED <<marker, acquired>>


(***************************************************************************)
(* LockManager.acquire when a system call on the marker fails.  An         *)
(* exception inside the try block is handled by `except Exception`; one    *)
(* raised inside the `except FileExistsError` handler (by _is_stale_lock   *)
(* or by unlink) is handled by no clause and leaves acquire().             *)
(***************************************************************************)
\* os.open raises something other than FileExistsError (PermissionError, ENOSPC):
\* except Exception: time.sleep(0.1)
acquire_create_error(p) ==
    /\ pc[p] = "create"
    /\ elapsed' = [elapsed EXCEPT ![p] = elapsed[p] + 1]
    /\ pc' = [pc EXCEPT ![p] = NextIter(elapsed[p] + 1)]
    /\ tries' = [tries EXCEPT ![p] = Count(p)]
    /\ UNCHANGED <<marker, acquired, clean>>

\* The exceptions _is_stale_lock turns into "stale".
StaleErrors == {"ValueError", "FileNotFoundError", "PermissionError"}

\* What open() or read() of an existing marker can raise.
ProbeErrors == {"PermissionError", "IsADirectoryError"}

\* open(self.lock_file, 'r') raises e: return True for the three exceptions
\* _is_stale_lock catches, every other one propagates.
acquire_probe_error(p, e) ==
    /\ pc[p] = "probe"
    /\ marker.exists
    /\ pc' = [pc EXCEPT ![p] = IF e \in StaleErrors THEN "unlink" ELSE "raised"]
    /\ UNCHANGED <<marker, acquired, elapsed, tries, clean>>

\* self.lock_file.unlink() raises PermissionError: only FileNotFoundError is caught.
acquire_unlink_error(p) ==
    /\ pc[p] = "unlink"
    /\ marker.exists
    /\ pc' = [pc EXCEPT ![p] = "raised"]
    /\ UNCHANGED <<marker, acquired, elapsed, tries, clean>>

(***************************************************************************)
(* LockManager.release, and its return to the caller.                      *)
(***************************************************************************)

release_KeepsMarker(p) ==
    /\ pc[p] = "idle"
    /\ acquired' = [acquired EXCEPT ![p] = FALSE]
    /\ pc' = [pc EXCEPT ![p] = IF acquired[p] THEN "relDeleted" ELSE "relNoop"]
    /\ UNCHANGED <<marker, clean, tries, elapsed>>

release_Unconditional(p) ==
    /\ pc[p] = "idle"
    /\ marker' = NoMarker
    /\ clean' = IF marker.exists THEN Disturb(p) ELSE clean
    /\ tries' = [Forget(p, tries) EXCEPT ![p] = 0]
    /\ acquired' = [acquired EXCEPT ![p] = FALSE]
    /\ pc' = [pc EXCEPT ![p] = IF acquired[p] THEN "relDeleted" ELSE "relNoop"]
    /\ UNCHANGED elapsed

\* pc records which branch ran: "relDeleted" (self.acquired was True) or "relNoop".
release(p) ==
    /\ pc[p] = "idle"
    /\ IF acquired[p]
       THEN /\ marker' = NoMarker
            /\ clean' = IF marker.exists THEN Disturb(p) ELSE clean
            /\ tries' = [Forget(p, tries) EXCEPT ![p] = 0]
            /\ acquired' = [acquired EXCEPT ![p] = FALSE]
            /\ pc' = [pc EXCEPT ![p] = "relDeleted"]
       ELSE /\ pc' = [pc EXCEPT ![p] = "relNoop"]
            /\ UNCHANGED <<marker, clean, tries, acquired>>
    /\ UNCHANGED elapsed

release_return(p) ==
    /\ pc[p] \in {"relDeleted", "relNoop"}
    /\ pc' = [pc EXCEPT ![p] = "idle"]
    /\ UNCHANGED <<marker, acquired, elapsed, tries, clean>>

\* The process is killed at any point (SIGKILL): nothing is cleaned up.
Crash(p) ==
    /\ Alive(p)
    /\ pc' = [pc EXCEPT ![p] = "dead"]
    /\ acquired' = [acquired EXCEPT ![p] = FALSE]
    /\ elapsed' = [elapsed EXCEPT ![p] = 0]
    /\ tries' = [tries EXCEPT ![p] = 0]
    /\ clean' = [clean EXCEPT ![p] = "no"]
    /\ UNCHANGED marker

vars == <<lockVars, appVars>>

\* The longest list of notes in the values the model classes are tried on.
MaxLen == 2

(***************************************************************************)
(* Files and documents.                                                    *)
(***************************************************************************)
NoFile == [exists |-> FALSE]

NoCall == [op |-> "none"]

File(content) == [exists |-> TRUE, content |-> content]

None == "None"

\* uuid4 identifiers of cases; "demo" is the id of the demonstration case.
CaseIds == {"c1", "c2"}

\* Evidence ids used as arguments: of the demo case, of case c2, of nothing.
EvidenceIds == {"d1", "g2", "zz"}

\* Names given to --new-evidence.
EvidenceNames == {"n1"}

\* The dataclass Note with its defaults: a string is the sequence of its
\* characters (content_hash "" is the empty one), a list a sequence.
Note(content, timestamp, note_id) ==
    [content |-> content, timestamp |-> timestamp, note_id |-> note_id,
     content_hash |-> <<>>, signature |-> None, tags |-> <<>>, iocs |-> <<>>]

\* hashlib.sha256(f"{timestamp}:{content}".encode()).hexdigest(): a digest is
\* determined by, and stands for, the pair that was hashed.
sha256(timestamp, content) == <<"sha256", timestamp, content>>

\* Note.calculate_hash
calculate_hash(note) ==
    [note EXCEPT !.content_hash = sha256(note.timestamp, note.content)]

\* TagExtractor.extract_tags on the contents used here: the hashtags, lowercase.
TagExtractor_extract_tags(text) ==
    IF text = "briefing #Exfil" THEN <<"exfil">> ELSE <<>>

\* IOCExtractor.extract_iocs on the contents used here: the indicators.
IOCExtractor_extract_iocs(text) ==
    IF text = "connects to 10.0.0.1" THEN <<"10.0.0.1">> ELSE <<>>

\* Note.extract_tags
extract_tags(note) == [note EXCEPT !.tags = TagExtractor_extract_tags(note.content)]

\* Note.extract_iocs
extract_iocs(note) == [note EXCEPT !.iocs = IOCExtractor_extract_iocs(note.content)]

\* The three lines that follow every Note(content=...): calculate_hash(),
\* extract_tags(), extract_iocs().
NewNote(content, timestamp, note_id) ==
    extract_iocs(extract_tags(calculate_hash(Note(content, timestamp, note_id))))

\* The dataclass Evidence with its defaults; a dict is the set of its items.
Evidence(id, name) ==
    [name |-> name, evidence_id |-> id, description |-> "", metadata |-> {},
     notes |-> <<>>]

\* The dataclass Case with its defaults.
Case(id, number, evidence) ==
    [case_number |-> number, case_id |-> id, name |-> "", investigator |-> "",
     evidence |-> evidence, notes |-> <<>>]

\* create_demo_case(): the demonstration case, with evidence and notes.
create_demo_case ==
    [Case("demo", "DEMO-2024-001",
          <<[Evidence("d1", "Employee Laptop HDD") EXCEPT
                !.description = "Primary workstation hard drive",
                !.metadata = {<<"source_hash", "a3f5c8b9">>},
                !.notes = <<NewNote("imaging completed", 3, "n3")>>]>>)
        EXCEPT !.name = "Sample Investigation",
               !.investigator = "Demo User",
               !.notes = <<NewNote("briefing #Exfil", 1, "n1"),
                           NewNote("connects to 10.0.0.1", 2, "n2")>>]

\* Note.to_dict
Note_to_dict(note) ==
    [note_id |-> note.note_id, content |-> note.content, timestamp |-> note.timestamp,
     content_hash |-> note.content_hash, signature |-> note.signature,
     tags |-> note.tags, iocs |-> note.iocs]

\* Evidence.to_dict
Evidence_to_dict(ev) ==
    [evidence_id |-> ev.evidence_id, name |-> ev.name, description |-> ev.description,
     metadata |-> ev.metadata,
     notes |-> [i \in 1 .. Len(ev.notes) |-> Note_to_dict(ev.notes[i])]]

\* Case.to_dict
Case_to_dict(case) ==
    [case_id |-> case.case_id, case_number |-> case.case_number, name |-> case.name,
     investigator |-> case.investigator,
     evidence |-> [i \in 1 .. Len(case.evidence) |-> Evidence_to_dict(case.evidence[i])],
     notes |-> [i \in 1 .. Len(case.notes) |-> Note_to_dict(case.notes[i])]]

\* data.get(key, default)
Get(data, key, default) == IF key \in DOMAIN data THEN data[key] ELSE default

\* Note.from_dict without its signature argument: the dataclass default is used.
Note_from_dict_result_NoSignature(data) ==
    [content |-> data.content, timestamp |-> data.timestamp, note_id |-> data.note_id,
     content_hash |-> Get(data, "content_hash", <<>>),
     signature |-> None,
     tags |-> Get(data, "tags", <<>>), iocs |-> Get(data, "iocs", <<>>)]

\* Note.from_dict without its timestamp argument: the dataclass default,
\* time.time() at the load, is used.
Note_from_dict_result_NewTimestamp(data) ==
    [content |-> data.content, timestamp |-> 99, note_id |-> data.note_id,
     content_hash |-> Get(data, "content_hash", <<>>),
     signature |-> Get(data, "signature", None),
     tags |-> Get(data, "tags", <<>>), iocs |-> Get(data, "iocs", <<>>)]

\* Note.from_dict when it returns: the note built from the dict.
Note_from_dict_result(data) ==
    [content |-> data.content, timestamp |-> data.timestamp, note_id |-> data.note_id,
     content_hash |-> Get(data, "content_hash", <<>>),
     signature |-> Get(data, "signature", None),
     tags |-> Get(data, "tags", <<>>), iocs |-> Get(data, "iocs", <<>>)]

\* Evidence.from_dict when it returns.
Evidence_from_dict_result(data) ==
    LET notes == Get(data, "notes", <<>>) IN
    [name |-> data.name, evidence_id |-> data.evidence_id,
     description |-> Get(data, "description", ""),
     metadata |-> Get(data, "metadata", {}),
     notes |-> [i \in 1 .. Len(notes) |-> Note_from_dict_result(notes[i])]]

\* Case.from_dict when it returns.
Case_from_dict_result(data) ==
    LET evidence == Get(data, "evidence", <<>>)
        notes == Get(data, "notes", <<>>)
    IN
    [case_number |-> data.case_number, case_id |-> data.case_id,
     name |-> Get(data, "name", ""), investigator |-> Get(data, "investigator", ""),
     evidence |-> [i \in 1 .. Len(evidence) |-> Evidence_from_dict_result(evidence[i])],
     notes |-> [i \in 1 .. Len(notes) |-> Note_from_dict_result(notes[i])]]

\* json.dump of [c.to_dict() for c in cases]: the text, token by token.
Serialize(doc) ==
    <<[tok |-> "["]>>
        \o [i \in 1 .. Len(doc) |-> [tok |-> "case", val |-> Case_to_dict(doc[i])]]
        \o <<[tok |-> "]"]>>

\* Other JSON values a file can hold: a number, the object {}, and (as a
\* "case" token) an object with any keys.
Number == [tok |-> "number"]

EmptyObject == [tok |-> "{}"]

JsonValues == {"case", "number", "{}"}

\* json.load succeeds: the text is one JSON value, here a scalar, an object, or
\* a list of such values.
IsJson(text) ==
    \/ Len(text) = 1 /\ text[1].tok \in JsonValues
    \/ /\ Len(text) >= 2
       /\ text[1].tok = "["
       /\ text[Len(text)].tok = "]"
       /\ \A i \in 2 .. Len(text) - 1 : text[i].tok \in JsonValues

\* Note.from_dict(n): data["content"], data["timestamp"], data["note_id"]
Note_from_dict(n) ==
    IF {"content", "timestamp", "note_id"} \subseteq DOMAIN n THEN "ok" ELSE "KeyError"

AllOk(f, items) ==
    \A i \in 1 .. Len(items) : f[i] = "ok"

\* Evidence.from_dict(e): data["name"], data["evidence_id"], then the notes
Evidence_from_dict(e) ==
    IF ~({"name", "evidence_id"} \subseteq DOMAIN e) THEN "KeyError"
    ELSE IF "notes" \in DOMAIN e
            /\ ~AllOk([i \in 1 .. Len(e.notes) |-> Note_from_dict(e.notes[i])], e.notes)
         THEN "KeyError"
    ELSE "ok"

\* Case.from_dict(c) for one element c of the loaded value: subscripting a
\* value that is not an object raises TypeError, a missing required key
\* KeyError.
Case_from_dict(c) ==
    IF c.tok = "number" THEN "TypeError"
    ELSE IF c.tok = "{}" THEN "KeyError"
    ELSE IF ~({"case_number", "case_id"} \subseteq DOMAIN c.val) THEN "KeyError"
    ELSE IF "evidence" \in DOMAIN c.val
            /\ ~AllOk([i \in 1 .. Len(c.val.evidence) |->
                          Evidence_from_dict(c.val.evidence[i])], c.val.evidence)
         THEN "KeyError"
    ELSE IF "notes" \in DOMAIN c.val
            /\ ~AllOk([i \in 1 .. Len(c.val.notes) |-> Note_from_dict(c.val.notes[i])],
                      c.val.notes)
         THEN "KeyError"
    ELSE "ok"

\* The elements `for c in data` yields: of a list its elements, of {} nothing,
\* of another object its keys (strings, on which from_dict raises TypeError as
\* on a number).
Elements(text) ==
    IF Len(text) >= 2 THEN [i \in 1 .. Len(text) - 2 |-> text[i + 1]]
    ELSE IF text[1].tok = "{}" THEN <<>>
    ELSE <<Number>>

\* The try block of _load_data: json.load(f), then
\* [Case.from_dict(c) for c in data]; "ok" or the exception raised.
LoadOutcome(text) ==
    IF ~IsJson(text) THEN "JSONDecodeError"
    ELSE IF Len(text) = 1 /\ text[1].tok = "number" THEN "TypeError"
    ELSE LET els == Elements(text)
             bad == {i \in 1 .. Len(els) : Case_from_dict(els[i]) # "ok"}
         IN
         IF bad = {} THEN "ok"
         ELSE Case_from_dict(els[CHOOSE i \in bad : \A j \in bad : i <= j])

\* json.load followed by Case.from_dict on each element succeeds.
Parses(text) == LoadOutcome(text) = "ok"

\* [Case.from_dict(c) for c in data]
Parse(text) ==
    [i \in 1 .. Len(Elements(text)) |-> Case_from_dict_result(Elements(text)[i].val)]

\* A snapshot file whose content is not a complete document.
Garbage == <<[tok |-> "junk"]>>

\* json.dump of a dict whose keys, in insertion order, are keys: the text,
\* piece by piece.
DumpDict(d, keys) ==
    <<[tok |-> "{"]>>
        \o [i \in 1 .. Len(keys) |-> [tok |-> "pair", key |-> keys[i], val |-> d[keys[i]]]]
        \o <<[tok |-> "}"]>>

\* json.load succeeds on the text and gives a dict.
IsDictText(text) ==
    /\ Len(text) >= 2
    /\ text[1].tok = "{"
    /\ text[Len(text)].tok = "}"
    /\ \A i \in 2 .. Len(text) - 1 : text[i].tok = "pair"

\* json.load of such a text: the dict.
LoadDict(text) ==
    [k \in {text[i].key : i \in 2 .. Len(text) - 1} |->
        text[CHOOSE i \in 2 .. Len(text) - 1 : text[i].key = k].val]

\* A file content that is not valid UTF-8: f.read() raises UnicodeDecodeError,
\* a ValueError that is neither a JSONDecodeError nor an IOError.
Undecodable == <<[tok |-> "bytes"]>>

\* The pointer file written by set_active.
Pointer(case_id, evidence_id) ==
    File(DumpDict([case_id |-> case_id, evidence_id |-> evidence_id],
                  <<"case_id", "evidence_id">>))

\* The pointer that names nothing.
NoActive == [case_id |-> None, evidence_id |-> None]

\* StateManager.get_active, when it returns: the file is missing, or json.load
\* gives the dict, or JSONDecodeError or IOError is caught.
get_active ==
    IF stateFile.exists /\ IsDictText(stateFile.content)
    THEN LoadDict(stateFile.content)
    ELSE [case_id |-> None, evidence_id |-> None]

\* Storage.get_case on the case list of process p: the matching cases, first first.
get_case(p, case_id) == SelectSeq(cases[p], LAMBDA c : c.case_id = case_id)

\* cli.find_case: by case_id or case_number.
find_case(p, identifier) ==
    SelectSeq(cases[p], LAMBDA c : c.case_id = identifier \/ c.case_number = identifier)

\* cli.find_evidence: by evidence_id or name, within one case.
find_evidence(case, identifier) ==
    SelectSeq(case.evidence, LAMBDA e : e.evidence_id = identifier \/ e.name = identifier)

(***************************************************************************)
(* One-shot commands (cli.py): launch, Storage(), the body, the exit.      *)
(***************************************************************************)
\* The commands that work on notes: trace "text", and the TUI.
NoteCmds == {"add_note", "tui"}

\* A program that builds a Storage and calls its methods itself.
ApiCmds == {"recover"}

\* trace --new-case and trace --switch-evidence.
CliCmds == {"new_case", "switch_evidence"}

StorageCmds ==
    {"list", "switch_case", "new_evidence", "second"} \cup NoteCmds \cup ApiCmds \cup CliCmds

\* A command that builds a Storage: __init__ up to the call of acquire().
launch(p, c) ==
    /\ c \in StorageCmds
    /\ cmd[p] = "none"
    /\ acquire_call(p)
    /\ cmd' = [cmd EXCEPT ![p] = c]
    /\ UNCHANGED <<fileVars, cases, how, before, call, host, global_active>>

\* A program that uses a StateManager and no Storage (tests/test_models.py).
launch_state_only(p) ==
    /\ cmd[p] = "none"
    /\ pc[p] = "idle"
    /\ ~acquired[p]
    /\ cmd' = [cmd EXCEPT ![p] = "state_only"]
    /\ pc' = [pc EXCEPT ![p] = "body"]
    /\ UNCHANGED <<marker, acquired, elapsed, tries, clean>>
    /\ UNCHANGED <<fileVars, cases, how, before, call, host, global_active>>

\* The lock part of a step that consumes the result of acquire().
AfterAcquire(p, next) ==
    /\ pc' = [pc EXCEPT ![p] = next]
    /\ elapsed' = [elapsed EXCEPT ![p] = 0]
    /\ tries' = [tries EXCEPT ![p] = IF pc[p] = "retFalse" THEN 0
                                    ELSE IF tries[p] > 2 THEN 2 ELSE tries[p]]
    /\ clean' = [clean EXCEPT ![p] = "no"]
    /\ UNCHANGED <<marker, acquired>>

LoadAndSeed_SeedsWhenEmpty(p) ==
    IF ~dataFile.exists \/ (Parses(dataFile.content) /\ Parse(dataFile.content) = <<>>)
    THEN /\ cases' = [cases EXCEPT ![p] = <<create_demo_case>>]
         /\ dataFile' = File(Serialize(<<create_demo_case>>))
         /\ AfterAcquire(p, "body")
         /\ UNCHANGED <<tmpFile, backupFile, stateFile, smVars, how>>
    ELSE IF Parses(dataFile.content)
    THEN /\ cases' = [cases EXCEPT ![p] = Parse(dataFile.content)]
         /\ AfterAcquire(p, "body")
         /\ UNCHANGED <<fileVars, how>>
    ELSE /\ how' = [how EXCEPT ![p] = "corrupt"]
         /\ AfterAcquire(p, "raised")
         /\ UNCHANGED <<fileVars, cases>>

\* _load_data and the first-launch seeding of __init__, with the lock held or not.
LoadAndSeed(p) ==
    IF ~dataFile.exists
    THEN \* no file: first run, demo case appended and saved
         /\ cases' = [cases EXCEPT ![p] = <<create_demo_case>>]
         /\ dataFile' = File(Serialize(<<create_demo_case>>))
         /\ AfterAcquire(p, "body")
         /\ UNCHANGED <<tmpFile, backupFile, stateFile, smVars, how>>
    ELSE IF Parses(dataFile.content)
    THEN /\ cases' = [cases EXCEPT ![p] = Parse(dataFile.content)]
         /\ AfterAcquire(p, "body")
         /\ UNCHANGED <<fileVars, how>>
    ELSE IF LoadOutcome(dataFile.content) = "TypeError"
    THEN \* not among the exceptions _load_data catches: it leaves __init__ as it is
         /\ how' = [how EXCEPT ![p] = "TypeError"]
         /\ AfterAcquire(p, "raised")
         /\ UNCHANGED <<fileVars, cases>>
    ELSE \* JSONDecodeError, KeyError: shutil.copy2 to the backup, any exception of
         \* the copy swallowed, then RuntimeError naming the backup
         /\ \E copied \in BOOLEAN :
               backupFile' = IF copied THEN dataFile ELSE backupFile
         /\ how' = [how EXCEPT ![p] = "corrupt"]
         /\ AfterAcquire(p, "raised")
         /\ UNCHANGED <<dataFile, tmpFile, stateFile, smVars, cases>>

Storage_init_IgnoresLock(p) ==
    /\ pc[p] \in {"retTrue", "retFalse"}
    /\ cmd[p] \in StorageCmds
    /\ LoadAndSeed(p)
    /\ UNCHANGED <<cmd, before, call, host, global_active>>

\* Storage.__init__ from the return of acquire(timeout=5) on.
Storage_init(p) ==
    /\ pc[p] \in {"retTrue", "retFalse"}
    /\ cmd[p] \in StorageCmds
    /\ IF pc[p] = "retFalse"
       THEN \* raise RuntimeError("Another instance of trace is already running...")
            /\ how' = [how EXCEPT ![p] = "lockfail"]
            /\ AfterAcquire(p, "raised")
            /\ UNCHANGED <<fileVars, cases>>
       ELSE LoadAndSeed(p)
    \* TUI.__init__ goes on from Storage() to read the pointer into its copy
    /\ global_active' = IF cmd[p] = "tui" /\ pc'[p] = "body"
                         THEN [global_active EXCEPT ![p] = get_active]
                         ELSE global_active
    /\ UNCHANGED <<cmd, before, call, host>>

Finish(p, kind) ==
    /\ pc' = [pc EXCEPT ![p] = IF kind = "return" THEN "returned" ELSE "sysexit"]
    /\ how' = [how EXCEPT ![p] = kind]
    /\ UNCHANGED <<marker, acquired, elapsed, tries, clean>>

\* cli.list_contexts after Storage(): prints, returns.
list_contexts(p) ==
    /\ pc[p] = "body"
    /\ cmd[p] = "list"
    /\ Finish(p, "return")
    /\ UNCHANGED <<fileVars, cases, cmd, before, call, host, global_active>>

\* cli.switch_case(identifier) after Storage()
switch_case(p, identifier) ==
    /\ pc[p] = "body"
    /\ cmd[p] = "switch_case"
    /\ LET found == find_case(p, identifier) IN
       IF found = <<>>
       THEN /\ Finish(p, "sysexit")
            /\ UNCHANGED <<stateFile, stateTmp>>
       ELSE /\ stateFile' = Pointer(found[1].case_id, None)
            /\ stateTmp' = NoFile
            /\ Finish(p, "return")
    /\ UNCHANGED <<dataFile, tmpFile, backupFile, cases, cmd, before, call, host, global_active>>
    /\ UNCHANGED <<settingsFile, settingsTmp>>

\* The evidence_id (uuid4) process p gives to the evidence it creates.
NewEvidenceId(p) == <<"e", p>>

\* cli.create_evidence(name) after Storage()
create_evidence(p, name) ==
    /\ pc[p] = "body"
    /\ cmd[p] = "new_evidence"
    /\ LET case_id == get_active.case_id
           found == get_case(p, case_id)
       IN
       IF case_id = None \/ found = <<>> \/ find_evidence(found[1], name) # <<>>
       THEN /\ Finish(p, "sysexit")
            /\ UNCHANGED <<dataFile, stateFile, stateTmp, cases>>
       ELSE LET ev == Evidence(NewEvidenceId(p), name)
                i == CHOOSE i \in 1 .. Len(cases[p]) : cases[p][i].case_id = case_id
                doc == [cases[p] EXCEPT ![i].evidence = Append(@, ev)]
            IN
            /\ cases' = [cases EXCEPT ![p] = doc]
            /\ dataFile' = File(Serialize(doc))
            /\ stateFile' = Pointer(case_id, ev.evidence_id)
            /\ stateTmp' = NoFile
            /\ Finish(p, "return")
    /\ UNCHANGED <<tmpFile, backupFile, cmd, before, call, host, global_active>>
    /\ UNCHANGED <<settingsFile, settingsTmp>>

\* StateManager(app_dir).set_active(case_id, evidence_id) in a program that
\* built no Storage.
set_active_alone(p, case_id, evidence_id) ==
    /\ pc[p] = "body"
    /\ cmd[p] = "state_only"
    /\ stateFile' = Pointer(case_id, evidence_id)
    /\ stateTmp' = NoFile
    /\ Finish(p, "return")
    /\ UNCHANGED <<dataFile, tmpFile, backupFile, cases, cmd, before, call, host, global_active>>
    /\ UNCHANGED <<settingsFile, settingsTmp>>

\* The process ends: by return, by sys.exit(1), or by the error raised in
\* Storage.__init__.  The lock is released by Storage.__del__ alone, and
\* whether __del__ runs for an object alive at interpreter exit is not
\* guaranteed: both outcomes are possible.
process_exit(p) ==
    /\ pc[p] \in {"returned", "sysexit", "raised"}
    /\ \E finalized \in BOOLEAN :
          LET unlinks == finalized /\ acquired[p] IN
          /\ marker' = IF unlinks THEN NoMarker ELSE marker
          /\ clean' = [(IF unlinks /\ marker.exists THEN Disturb(p) ELSE clean)
                          EXCEPT ![p] = "no"]
          /\ tries' = [(IF unlinks /\ marker.exists THEN Forget(p, tries) ELSE tries)
                          EXCEPT ![p] = 0]
    /\ pc' = [pc EXCEPT ![p] = "dead"]
    /\ acquired' = [acquired EXCEPT ![p] = FALSE]
    /\ elapsed' = [elapsed EXCEPT ![p] = 0]
    /\ cases' = [cases EXCEPT ![p] = <<>>]
    /\ cmd' = [cmd EXCEPT ![p] = "done"]
    /\ how' = [how EXCEPT ![p] = "exited"]
    /\ global_active' = [global_active EXCEPT ![p] = NoActive]
    /\ UNCHANGED <<fileVars, before, call, host>>

\* Something outside the program damages the snapshot file between two runs.
corrupt_snapshot ==
    /\ \A p \in Procs : pc[p] \in {"idle", "dead"}
    /\ dataFile.exists
    /\ Parses(dataFile.content)
    /\ dataFile' = File(Garbage)
    /\ UNCHANGED <<tmpFile, backupFile, stateFile, smVars, cases, cmd, how, before, call,
                   host, global_active>>
    /\ UNCHANGED lockVars

(***************************************************************************)
(* The Storage of a running session: its mutators, and save_data step by   *)
(* step.                                                                   *)
(***************************************************************************)
\* The longest case list a session builds.
MaxCases == 2

\* The save_data call begins: the in-memory list is now doc.
BeginSave(p, doc) ==
    /\ cases' = [cases EXCEPT ![p] = doc]
    /\ before' = [before EXCEPT ![p] = dataFile]
    /\ how' = [how EXCEPT ![p] = "none"]
    /\ pc' = [pc EXCEPT ![p] = "save_open"]
    /\ UNCHANGED <<marker, acquired, elapsed, tries, clean>>
    /\ UNCHANGED <<fileVars, cmd, host, global_active>>

\* The Case objects handed to add_case: one without evidence, one with an
\* evidence item (tests/test_models.py: Evidence(name="Gun")).
NewCase(id) ==
    IF id = "c2" THEN Case(id, id, <<Evidence("g2", "Gun")>>) ELSE Case(id, id, <<>>)

add_case_NoSave(p, id) ==
    /\ pc[p] = "ready"
    /\ Len(cases[p]) < MaxCases
    /\ get_case(p, id) = <<>>
    /\ cases' = [cases EXCEPT ![p] = Append(cases[p], NewCase(id))]
    /\ call' = [call EXCEPT ![p] = NoCall]
    /\ UNCHANGED <<pc, marker, acquired, elapsed, tries, clean>>
    /\ UNCHANGED <<fileVars, cmd, how, before, host, global_active>>

\* Storage.add_case(case), case a new Case with a fresh uuid
add_case(p, id) ==
    /\ pc[p] = "ready"
    /\ Len(cases[p]) < MaxCases
    /\ get_case(p, id) = <<>>
    /\ BeginSave(p, Append(cases[p], NewCase(id)))
    /\ call' = [call EXCEPT ![p] = [op |-> "add_case", id |-> id]]

\* Storage.delete_case(case_id)
delete_case(p, case_id) ==
    /\ pc[p] = "ready"
    /\ BeginSave(p, SelectSeq(cases[p], LAMBDA c : c.case_id # case_id))
    /\ call' = [call EXCEPT ![p] = [op |-> "delete_case", id |-> case_id]]

\* A call that saves nothing returns: the caller has the result in call[p].
Return(p) ==
    /\ pc' = [pc EXCEPT ![p] = "returned"]
    /\ UNCHANGED <<marker, acquired, elapsed, tries, clean>>
    /\ UNCHANGED <<cmd, how, before, host, global_active>>

delete_evidence_AnyCase(p, case_id, evidence_id) ==
    /\ pc[p] = "ready"
    /\ call' = [call EXCEPT ![p] = [op |-> "delete_evidence", id |-> case_id,
                                     evidence_id |-> evidence_id]]
    /\ IF get_case(p, case_id) # <<>>
       THEN BeginSave(p, [i \in 1 .. Len(cases[p]) |->
                             [cases[p][i] EXCEPT !.evidence =
                                 SelectSeq(@, LAMBDA e : e.evidence_id # evidence_id)]])
       ELSE /\ Return(p)
            /\ UNCHANGED <<fileVars, cases>>

\* Storage.delete_evidence(case_id, evidence_id)
delete_evidence(p, case_id, evidence_id) ==
    /\ pc[p] = "ready"
    /\ call' = [call EXCEPT ![p] = [op |-> "delete_evidence", id |-> case_id,
                                     evidence_id |-> evidence_id]]
    /\ IF get_case(p, case_id) # <<>>
       THEN LET i == CHOOSE i \in 1 .. Len(cases[p]) : cases[p][i].case_id = case_id IN
            BeginSave(p, [cases[p] EXCEPT ![i].evidence =
                             SelectSeq(@, LAMBDA e : e.evidence_id # evidence_id)])
       ELSE \* if case: is false, nothing is done
            /\ Return(p)
            /\ UNCHANGED <<fileVars, cases>>

\* Storage.start_fresh()
start_fresh(p) ==
    /\ pc[p] = "ready"
    /\ BeginSave(p, <<create_demo_case>>)
    /\ call' = [call EXCEPT ![p] = [op |-> "start_fresh"]]


\* storage = Storage(app_dir) has returned: the caller has the object.  A
\* constructor that raised has bound no object (pc[p] = "raised").
Storage_returned(p) ==
    /\ pc[p] = "body"
    /\ cmd[p] \in ApiCmds
    /\ pc' = [pc EXCEPT ![p] = "ready"]
    /\ UNCHANGED <<marker, acquired, elapsed, tries, clean>>
    /\ UNCHANGED <<fileVars, cases, cmd, how, before, call, host, global_active>>

\* The program is done with its Storage and ends.
api_return(p) ==
    /\ pc[p] = "ready"
    /\ cmd[p] \in ApiCmds
    /\ Finish(p, "return")
    /\ call' = [call EXCEPT ![p] = NoCall]
    /\ UNCHANGED <<fileVars, cases, cmd, before, host, global_active>>

\* The caller goes on after a call that returned a result.
call_return(p) ==
    /\ pc[p] = "returned"
    /\ cmd[p] = "session"
    /\ pc' = [pc EXCEPT ![p] = "ready"]
    /\ call' = [call EXCEPT ![p] = NoCall]
    /\ UNCHANGED <<marker, acquired, elapsed, tries, clean>>
    /\ UNCHANGED <<fileVars, cases, cmd, how, before, host, global_active>>

SaveStep(p, next) ==
    /\ pc' = [pc EXCEPT ![p] = next]
    /\ UNCHANGED <<marker, acquired, elapsed, tries, clean>>
    /\ UNCHANGED <<backupFile, stateFile, smVars, cases, cmd, before, host, global_active>>

\* save_data: open(temp_file, 'w') creates or truncates data.tmp
save_data_open(p) ==
    /\ pc[p] = "save_open"
    /\ tmpFile' = File(<<>>)
    /\ SaveStep(p, "save_write")
    /\ call' = [call EXCEPT ![p] = NoCall]
    /\ UNCHANGED <<dataFile, how>>

\* save_data: json.dump writes the next piece of the text; after the last one
\* the with block closes the file.
save_data_write(p) ==
    /\ pc[p] = "save_write"
    /\ LET text == Serialize(cases[p])
           n == Len(tmpFile.content) + 1
       IN
       /\ tmpFile' = File(Append(tmpFile.content, text[n]))
       /\ SaveStep(p, IF n = Len(text) THEN "save_replace" ELSE "save_write")
    /\ UNCHANGED <<dataFile, how, call>>

\* save_data: temp_file.replace(self.data_file), then the return to the caller
save_data_replace(p) ==
    /\ pc[p] = "save_replace"
    /\ dataFile' = tmpFile
    /\ tmpFile' = NoFile
    /\ SaveStep(p, "ready")
    /\ call' = [call EXCEPT ![p] = NoCall]
    /\ UNCHANGED how

save_data_io_error_Replaces(p) ==
    /\ pc[p] \in {"save_open", "save_write", "save_replace"}
    /\ how' = [how EXCEPT ![p] = pc[p]]
    /\ dataFile' = IF tmpFile.exists THEN tmpFile ELSE dataFile
    /\ tmpFile' = NoFile
    /\ call' = [call EXCEPT ![p] = NoCall]
    /\ SaveStep(p, "ready")

\* An OSError at the current step of save_data: the exception leaves save_data
\* (closing the temporary file if it is open) and reaches the caller.
save_data_io_error(p) ==
    /\ pc[p] \in {"save_open", "save_write", "save_replace"}
    /\ how' = [how EXCEPT ![p] = pc[p]]
    /\ SaveStep(p, "ready")
    /\ call' = [call EXCEPT ![p] = NoCall]
    /\ UNCHANGED <<dataFile, tmpFile>>

(***************************************************************************)
(* Lookups of the Storage, the StateManager's pointer, and a second        *)
(* Storage object in the process of the first.                             *)
(***************************************************************************)
Storage_find_evidence_FirstCase(p, evidence_id) ==
    LET hits == {h \in (1 .. Len(cases[p])) \X (1 .. 3) :
                    /\ h[2] <= Len(cases[p][h[1]].evidence)
                    /\ cases[p][h[1]].evidence[h[2]].evidence_id = evidence_id}
    IN
    IF hits = {} THEN <<<<>>, <<>>>>
    ELSE LET h == CHOOSE h \in hits : TRUE IN
         <<<<cases[p][1]>>, <<cases[p][h[1]].evidence[h[2]]>>>>

\* Storage.find_evidence(evidence_id): the first evidence item with that id,
\* cases and their evidence taken in list order, with its case.  A result that
\* is an object or None is a sequence of one element or of none.
Storage_find_evidence(p, evidence_id) ==
    LET hits == {h \in (1 .. Len(cases[p])) \X (1 .. 3) :
                    /\ h[2] <= Len(cases[p][h[1]].evidence)
                    /\ cases[p][h[1]].evidence[h[2]].evidence_id = evidence_id}
    IN
    IF hits = {} THEN <<<<>>, <<>>>>
    ELSE LET h == CHOOSE h \in hits :
                      \A g \in hits : h[1] < g[1] \/ (h[1] = g[1] /\ h[2] <= g[2])
         IN
         <<<<cases[p][h[1]]>>, <<cases[p][h[1]].evidence[h[2]]>>>>

\* A call of storage.get_case(case_id); the result is in call[p].
call_get_case(p, case_id) ==
    /\ pc[p] = "ready"
    /\ call' = [call EXCEPT ![p] =
                   [op |-> "get_case", id |-> case_id,
                    result |-> IF get_case(p, case_id) = <<>> THEN <<>>
                               ELSE <<get_case(p, case_id)[1]>>]]
    /\ Return(p)
    /\ UNCHANGED <<fileVars, cases>>

\* A call of storage.find_evidence(evidence_id); the result is in call[p].
call_find_evidence(p, evidence_id) ==
    /\ pc[p] = "ready"
    /\ call' = [call EXCEPT ![p] =
                   [op |-> "find_evidence", id |-> evidence_id,
                    result |-> Storage_find_evidence(p, evidence_id)]]
    /\ Return(p)
    /\ UNCHANGED <<fileVars, cases>>

\* Arguments given to set_active: ids of cases and of evidence, or None.
PointerCases == {None, "demo", "c1"}

PointerEvidence == {None, "d1", "g2"}

\* StateManager.set_active(case_id, evidence_id), called next to a Storage.
set_active(p, case_id, evidence_id) ==
    /\ pc[p] = "ready"
    /\ stateFile' = Pointer(case_id, evidence_id)
    /\ stateTmp' = NoFile
    /\ UNCHANGED lockVars
    /\ UNCHANGED <<dataFile, tmpFile, backupFile, cases, cmd, how, before, call, host,
                   global_active>>
    /\ UNCHANGED <<settingsFile, settingsTmp>>

StaleOutcome_NoCaseCheck(p) ==
    LET case_id == get_active.case_id
        evidence_id == get_active.evidence_id
    IN
    IF case_id # None
    THEN IF evidence_id # None /\ Storage_find_evidence(p, evidence_id)[2] = <<>>
         THEN [warning |-> "evidence no longer exists", state |-> Pointer(case_id, None)]
         ELSE [warning |-> "", state |-> stateFile]
    ELSE IF evidence_id # None
    THEN [warning |-> "evidence set without case", state |-> Pointer(None, None)]
    ELSE [warning |-> "", state |-> stateFile]

StaleOutcome_NoElif(p) ==
    LET case_id == get_active.case_id
        evidence_id == get_active.evidence_id
    IN
    IF case_id # None
    THEN IF get_case(p, case_id) = <<>>
         THEN [warning |-> "case no longer exists", state |-> Pointer(None, None)]
         ELSE IF evidence_id # None /\ Storage_find_evidence(p, evidence_id)[2] = <<>>
         THEN [warning |-> "evidence no longer exists", state |-> Pointer(case_id, None)]
         ELSE [warning |-> "", state |-> stateFile]
    ELSE [warning |-> "", state |-> stateFile]

StaleOutcome_SilentClear(p) ==
    LET case_id == get_active.case_id
        evidence_id == get_active.evidence_id
    IN
    IF case_id # None
    THEN IF get_case(p, case_id) = <<>>
         THEN [warning |-> "case no longer exists", state |-> Pointer(None, None)]
         ELSE IF evidence_id # None /\ Storage_find_evidence(p, evidence_id)[2] = <<>>
         THEN [warning |-> "", state |-> Pointer(case_id, None)]
         ELSE [warning |-> "", state |-> stateFile]
    ELSE IF evidence_id # None
    THEN [warning |-> "evidence set without case", state |-> Pointer(None, None)]
    ELSE [warning |-> "", state |-> stateFile]

\* The body of validate_and_clear_stale: the warning returned and the state
\* file left behind.
StaleOutcome(p) ==
    LET case_id == get_active.case_id
        evidence_id == get_active.evidence_id
    IN
    IF case_id # None
    THEN IF get_case(p, case_id) = <<>>
         THEN \* set_active(None, None)
              [warning |-> "case no longer exists", state |-> Pointer(None, None)]
         ELSE IF evidence_id # None /\ Storage_find_evidence(p, evidence_id)[2] = <<>>
         THEN \* set_active(case_id, None)
              [warning |-> "evidence no longer exists", state |-> Pointer(case_id, None)]
         ELSE [warning |-> "", state |-> stateFile]
    ELSE IF evidence_id # None
    THEN \* set_active(None, None)
         [warning |-> "evidence set without case", state |-> Pointer(None, None)]
    ELSE [warning |-> "", state |-> stateFile]

\* StateManager.validate_and_clear_stale(storage), storage the Storage of p;
\* call[p] keeps the pointer that was read and the warning returned.
validate_and_clear_stale(p) ==
    /\ pc[p] = "ready"
    /\ call' = [call EXCEPT ![p] = [op |-> "validate", pointer |-> get_active,
                                     warning |-> StaleOutcome(p).warning]]
    /\ stateFile' = StaleOutcome(p).state
    /\ stateTmp' = IF StaleOutcome(p).warning = "" THEN stateTmp ELSE NoFile
    /\ Return(p)
    /\ UNCHANGED <<dataFile, tmpFile, backupFile, cases, settingsFile, settingsTmp>>

\* The caller has the warning and calls validate_and_clear_stale(storage) again
\* at once; call[p] keeps the warning of the call before as well.
validate_again(p) ==
    /\ pc[p] = "returned"
    /\ call[p].op = "validate"
    /\ call' = [call EXCEPT ![p] = [op |-> "validate_again", pointer |-> get_active,
                                     warning |-> StaleOutcome(p).warning,
                                     first |-> call[p].warning]]
    /\ stateFile' = StaleOutcome(p).state
    /\ stateTmp' = IF StaleOutcome(p).warning = "" THEN stateTmp ELSE NoFile
    /\ Return(p)
    /\ UNCHANGED <<dataFile, tmpFile, backupFile, cases, settingsFile, settingsTmp>>

\* Storage(app_dir) called by a process that already has a Storage: the new
\* object q lives in process w, runs __init__ up to the call of acquire().
second_Storage(q, w) ==
    /\ q # w
    /\ cmd[w] = "session"
    /\ pc[w] = "ready"
    /\ cmd[q] = "none"
    /\ acquire_call(q)
    /\ cmd' = [cmd EXCEPT ![q] = "second"]
    /\ host' = [host EXCEPT ![q] = w]
    /\ UNCHANGED global_active
    /\ UNCHANGED <<fileVars, cases, how, before, call>>

\* Process p is inside a constructor call it made (one thread).
Busy(p) ==
    \E q \in Procs \ {p} :
        host[q] = p /\ pc[q] \in InAcquire \cup {"retTrue", "retFalse"}


(***************************************************************************)
(* A process that uses a StateManager alone: get_active, get_settings, and *)
(* set_active and set_setting step by step.                                *)
(***************************************************************************)
\* Keys of the settings, in the order they are dumped.
SettingKeys == <<"pgp_enabled", "gpg_key_id">>

\* Values given to set_setting for a key.
SettingValues(k) == IF k = "pgp_enabled" THEN BOOLEAN ELSE {"K1", "K2"}

\* The keys of dict d, in order.
KeysOf(d, order) == SelectSeq(order, LAMBDA k : k \in DOMAIN d)

\* d[k] = v on a dict
Updated(d, k, v) == [x \in DOMAIN d \cup {k} |-> IF x = k THEN v ELSE d[x]]

\* StateManager.get_settings, when it returns.
get_settings ==
    IF settingsFile.exists /\ IsDictText(settingsFile.content)
    THEN LoadDict(settingsFile.content)
    ELSE [pgp_enabled |-> TRUE]

\* open(file, 'r', encoding='utf-8') followed by json.load(f) raises an
\* exception that `except (json.JSONDecodeError, IOError)` does not catch.
ReadRaises(file) == file.exists /\ file.content = Undecodable

\* StateManager(app_dir) in a process that builds no Storage, the only process
\* that uses the directory.
StateManager_init(p) ==
    /\ cmd[p] = "none"
    /\ pc[p] = "idle"
    /\ \A q \in Procs \ {p} : pc[q] = "idle" /\ cmd[q] = "none"
    /\ cmd' = [cmd EXCEPT ![p] = "session"]
    /\ pc' = [pc EXCEPT ![p] = "ready"]
    /\ UNCHANGED <<marker, acquired, elapsed, tries, clean>>
    /\ UNCHANGED <<fileVars, cases, how, before, call, host, global_active>>

\* The call ends with exception e.
Raise(p, e) ==
    /\ pc' = [pc EXCEPT ![p] = "raised"]
    /\ how' = [how EXCEPT ![p] = e]
    /\ UNCHANGED <<marker, acquired, elapsed, tries, clean>>
    /\ UNCHANGED <<fileVars, cases, cmd, before, host, global_active>>

\* A call of state_manager.get_active(); the result is in call[p].
call_get_active(p) ==
    /\ pc[p] = "ready"
    /\ IF ReadRaises(stateFile)
       THEN /\ call' = [call EXCEPT ![p] = [op |-> "get_active"]]
            /\ Raise(p, "UnicodeDecodeError")
       ELSE /\ call' = [call EXCEPT ![p] = [op |-> "get_active", result |-> get_active]]
            /\ Return(p)
            /\ UNCHANGED <<fileVars, cases>>

\* A call of state_manager.get_settings(); the result is in call[p].
call_get_settings(p) ==
    /\ pc[p] = "ready"
    /\ IF ReadRaises(settingsFile)
       THEN /\ call' = [call EXCEPT ![p] = [op |-> "get_settings"]]
            /\ Raise(p, "UnicodeDecodeError")
       ELSE /\ call' = [call EXCEPT ![p] = [op |-> "get_settings", result |-> get_settings]]
            /\ Return(p)
            /\ UNCHANGED <<fileVars, cases>>

\* The lock part and the frame of a step inside set_active or set_setting.
WriteStep(p, next) ==
    /\ pc' = [pc EXCEPT ![p] = next]
    /\ UNCHANGED <<marker, acquired, elapsed, tries, clean>>
    /\ UNCHANGED <<dataFile, tmpFile, backupFile, cases, cmd, how, host, global_active>>

\* set_active(case_id, evidence_id) up to the open of the temporary file:
\* state = self.get_active(); state["case_id"] = ...; state["evidence_id"] = ...
set_active_call(p, case_id, evidence_id) ==
    /\ pc[p] = "ready"
    /\ IF ReadRaises(stateFile)
       THEN /\ call' = [call EXCEPT ![p] = [op |-> "set_active"]]
            /\ Raise(p, "UnicodeDecodeError")
       ELSE LET state == Updated(Updated(get_active, "case_id", case_id),
                                 "evidence_id", evidence_id)
            IN
            /\ call' = [call EXCEPT ![p] =
                           [op |-> "set_active", case_id |-> case_id,
                            evidence_id |-> evidence_id,
                            text |-> DumpDict(state, KeysOf(state,
                                                  <<"case_id", "evidence_id">>))]]
            /\ before' = [before EXCEPT ![p] = stateFile]
            /\ WriteStep(p, "sm_open")
            /\ UNCHANGED <<stateFile, smVars>>

\* set_setting(key, value) up to the open of the temporary file:
\* settings = self.get_settings(); settings[key] = value
set_setting_call(p, key, value) ==
    /\ pc[p] = "ready"
    /\ IF ReadRaises(settingsFile)
       THEN /\ call' = [call EXCEPT ![p] = [op |-> "set_setting"]]
            /\ Raise(p, "UnicodeDecodeError")
       ELSE LET settings == Updated(get_settings, key, value) IN
            /\ call' = [call EXCEPT ![p] =
                           [op |-> "set_setting", key |-> key, value |-> value,
                            text |-> DumpDict(settings, KeysOf(settings, SettingKeys))]]
            /\ before' = [before EXCEPT ![p] = settingsFile]
            /\ WriteStep(p, "sm_open")
            /\ UNCHANGED <<stateFile, smVars>>

sm_open_InPlace(p) ==
    /\ pc[p] = "sm_open"
    /\ IF call[p].op = "set_active"
       THEN stateFile' = File(<<>>) /\ stateTmp' = File(<<>>)
                /\ UNCHANGED <<settingsFile, settingsTmp>>
       ELSE settingsFile' = File(<<>>) /\ settingsTmp' = File(<<>>)
                /\ UNCHANGED <<stateFile, stateTmp>>
    /\ WriteStep(p, "sm_write")
    /\ UNCHANGED <<before, call>>

\* open(temp_file, 'w', encoding='utf-8') creates or truncates the temporary
\* file beside the target.
sm_open(p) ==
    /\ pc[p] = "sm_open"
    /\ IF call[p].op = "set_active"
       THEN stateTmp' = File(<<>>) /\ UNCHANGED <<stateFile, settingsFile, settingsTmp>>
       ELSE settingsTmp' = File(<<>>) /\ UNCHANGED <<stateFile, stateTmp, settingsFile>>
    /\ WriteStep(p, "sm_write")
    /\ UNCHANGED <<before, call>>

\* json.dump writes the next piece of the text; after the last one the with
\* block closes the file.
sm_write(p) ==
    /\ pc[p] = "sm_write"
    /\ LET tmp == IF call[p].op = "set_active" THEN stateTmp ELSE settingsTmp
           n == Len(tmp.content) + 1
           new == File(Append(tmp.content, call[p].text[n]))
       IN
       /\ IF call[p].op = "set_active"
          THEN stateTmp' = new /\ UNCHANGED <<stateFile, settingsFile, settingsTmp>>
          ELSE settingsTmp' = new /\ UNCHANGED <<stateFile, stateTmp, settingsFile>>
       /\ WriteStep(p, IF n = Len(call[p].text) THEN "sm_replace" ELSE "sm_write")
    /\ UNCHANGED <<before, call>>

\* temp_file.replace(self.state_file), resp. self.settings_file; the return
sm_replace(p) ==
    /\ pc[p] = "sm_replace"
    /\ IF call[p].op = "set_active"
       THEN /\ stateFile' = stateTmp
            /\ stateTmp' = NoFile
            /\ UNCHANGED <<settingsFile, settingsTmp>>
       ELSE /\ settingsFile' = settingsTmp
            /\ settingsTmp' = NoFile
            /\ UNCHANGED <<stateFile, stateTmp>>
    /\ WriteStep(p, "returned")
    /\ UNCHANGED <<before, call>>


\* str(uuid.uuid4()) in process p: a value no other process draws.
NewId(p) == IF p = 1 THEN "u1" ELSE IF p = 2 THEN "u2" ELSE "u3"

\* The part of a command that precedes state_manager.set_active(case_id,
\* evidence_id): the pointer to write is kept in call[p].
BeforeSetActive(p, case_id, evidence_id) ==
    /\ call' = [call EXCEPT ![p] = [op |-> "set_active", case_id |-> case_id,
                                    evidence_id |-> evidence_id]]
    /\ pc' = [pc EXCEPT ![p] = "set_active"]
    /\ UNCHANGED how
    /\ UNCHANGED <<marker, acquired, elapsed, tries, clean>>

\* cli.create_case up to and including storage.save_data().
create_case(p, case_number) ==
    /\ pc[p] = "body"
    /\ cmd[p] = "new_case"
    /\ IF find_case(p, case_number) # <<>>
       THEN /\ Finish(p, "sysexit")
            /\ UNCHANGED <<dataFile, cases, call>>
       ELSE LET case == Case(NewId(p), case_number, <<>>)
                doc == Append(cases[p], case)
            IN
            /\ cases' = [cases EXCEPT ![p] = doc]
            /\ dataFile' = File(Serialize(doc))
            /\ BeforeSetActive(p, case.case_id, None)
    /\ UNCHANGED <<tmpFile, backupFile, stateFile, smVars, cmd, before, host, global_active>>

\* cli.create_evidence up to and including storage.save_data().
create_evidence_save(p, name) ==
    /\ pc[p] = "body"
    /\ cmd[p] = "new_evidence"
    /\ LET case_id == get_active.case_id
           found == get_case(p, case_id)
       IN
       IF case_id = None \/ found = <<>> \/ find_evidence(found[1], name) # <<>>
       THEN /\ Finish(p, "sysexit")
            /\ UNCHANGED <<dataFile, cases, call>>
       ELSE LET ev == Evidence(NewId(p), name)
                i == CHOOSE i \in 1 .. Len(cases[p]) : cases[p][i].case_id = case_id
                doc == [cases[p] EXCEPT ![i].evidence = Append(@, ev)]
            IN
            /\ cases' = [cases EXCEPT ![p] = doc]
            /\ dataFile' = File(Serialize(doc))
            /\ BeforeSetActive(p, case_id, ev.evidence_id)
    /\ UNCHANGED <<tmpFile, backupFile, stateFile, smVars, cmd, before, host, global_active>>

\* cli.switch_case up to the call of set_active.
switch_case_find(p, identifier) ==
    /\ pc[p] = "body"
    /\ cmd[p] = "switch_case"
    /\ LET found == find_case(p, identifier) IN
       IF found = <<>>
       THEN Finish(p, "sysexit") /\ UNCHANGED call
       ELSE BeforeSetActive(p, found[1].case_id, None)
    /\ UNCHANGED <<fileVars, cases, cmd, before, host, global_active>>

\* cli.switch_evidence up to the call of set_active.
switch_evidence(p, identifier) ==
    /\ pc[p] = "body"
    /\ cmd[p] = "switch_evidence"
    /\ LET case_id == get_active.case_id
           found == get_case(p, case_id)
       IN
       IF case_id = None \/ found = <<>> \/ find_evidence(found[1], identifier) = <<>>
       THEN Finish(p, "sysexit") /\ UNCHANGED call
       ELSE BeforeSetActive(p, case_id, find_evidence(found[1], identifier)[1].evidence_id)
    /\ UNCHANGED <<fileVars, cases, cmd, before, host, global_active>>

\* state_manager.set_active(case_id, evidence_id), the last call of the four
\* commands: the pointer file is replaced.
cli_set_active(p) ==
    /\ pc[p] = "set_active"
    /\ stateFile' = Pointer(call[p].case_id, call[p].evidence_id)
    /\ stateTmp' = NoFile
    /\ Finish(p, "return")
    /\ UNCHANGED <<dataFile, tmpFile, backupFile, settingsFile, settingsTmp>>
    /\ UNCHANGED <<cases, cmd, before, call, host, global_active>>


\* What run_gpg_wizard returns: signing declined or impossible, signing with
\* the key chosen, signing with the default key.
WizardSettings ==
    {[pgp_enabled |-> FALSE, gpg_key_id |-> None],
     [pgp_enabled |-> TRUE, gpg_key_id |-> "K1"],
     [pgp_enabled |-> TRUE, gpg_key_id |-> None]}

\* gpg_wizard.check_and_run_wizard(), the wizard returning wizard_settings if
\* it is run: settings = get_settings(); "pgp_enabled" in settings ends the
\* call with False; else one set_setting per item of the wizard's dict, and
\* True.  call[p] keeps whether the wizard ran and the value returned.
check_and_run_wizard(p, wizard_settings) ==
    /\ pc[p] = "ready"
    /\ IF ReadRaises(settingsFile)
       THEN /\ call' = [call EXCEPT ![p] = [op |-> "check_and_run_wizard"]]
            /\ Raise(p, "UnicodeDecodeError")
       ELSE LET settings == get_settings
                first == Updated(settings, "pgp_enabled", wizard_settings.pgp_enabled)
                second == Updated(first, "gpg_key_id", wizard_settings.gpg_key_id)
                ran == "pgp_enabled" \notin DOMAIN settings
            IN
            /\ call' = [call EXCEPT ![p] =
                           [op |-> "check_and_run_wizard", ran |-> ran, result |-> ran]]
            /\ settingsFile' = IF ran THEN File(DumpDict(second, KeysOf(second, SettingKeys)))
                               ELSE settingsFile
            /\ settingsTmp' = IF ran THEN NoFile ELSE settingsTmp
            /\ Return(p)
            /\ UNCHANGED <<dataFile, tmpFile, backupFile, stateFile, stateTmp, cases>>

(***************************************************************************)
(* Notes: cli.quick_add_note, and the add-note dialog and the delete key   *)
(* of the TUI.  Each handler is one step, its save_data included.          *)
(***************************************************************************)
\* The note_id (uuid4) of the note process p creates.
NewNoteId(p) == <<"p1", "p2", "p3", "p4">>[p]

\* time.time() when process p creates its note: later than the demo notes.
Now(p) == 10 + p

\* What the user types as the content of a note.
Contents == {"briefing #Exfil"}

\* What happens to the gpg process that sign_content starts: it signs, it
\* ends with a non-zero return code, it is not found (or, caught by the same
\* clause, takes more than 10 seconds), or it cannot be executed.
GpgOutcomes == {"signed", "nonzero", "FileNotFoundError", "PermissionError"}

\* Crypto.sign_content: the value returned, or the exception that leaves it:
\* only FileNotFoundError and subprocess.TimeoutExpired are caught.
Crypto_sign_content(gpg) ==
    IF gpg = "signed" THEN [raises |-> FALSE, value |-> "-----BEGIN PGP"]
    ELSE IF gpg \in {"nonzero", "FileNotFoundError"}
    THEN [raises |-> FALSE, value |-> ""]
    ELSE [raises |-> TRUE, value |-> gpg]

\* What the caller of sign_content sees: a signature, the empty string, or the
\* exception.
SignResult(gpg) ==
    IF Crypto_sign_content(gpg).raises THEN "raised"
    ELSE IF Crypto_sign_content(gpg).value = "" THEN "failed"
    ELSE "signed"

\* A scan that stops at the first match (`for c in self.cases: if ...: return c`):
\* the index of the first TRUE in the sequence of test results, 0 if there is none.
First(tests) ==
    IF \E i \in 1 .. Len(tests) : tests[i]
    THEN CHOOSE i \in 1 .. Len(tests) : tests[i] /\ \A k \in 1 .. i - 1 : ~tests[k]
    ELSE 0

\* list.remove(x): the first element equal to x is taken out.
Remove(seq, x) ==
    LET i == First([k \in 1 .. Len(seq) |-> seq[k] = x]) IN
    [k \in 1 .. Len(seq) - 1 |-> IF k < i THEN seq[k] ELSE seq[k + 1]]

\* target.notes.append(note), the target being evidence j of case i, or with
\* j = 0 case i itself.
AppendNote(doc, i, j, note) ==
    IF j = 0 THEN [doc EXCEPT ![i].notes = Append(@, note)]
    ELSE [doc EXCEPT ![i].evidence[j].notes = Append(@, note)]

\* The notes of a case: its own and those of its evidence.
CaseNotes(case) ==
    {case.notes[k] : k \in 1 .. Len(case.notes)}
    \cup UNION {{case.evidence[j].notes[k] : k \in 1 .. Len(case.evidence[j].notes)} :
                   j \in 1 .. Len(case.evidence)}

\* The notes of a case list, wherever they are.
NotesOf(doc) == UNION {CaseNotes(doc[i]) : i \in 1 .. Len(doc)}

\* json.load of a pointer file that get_active reads without raising.
ReadPointer(file) ==
    IF file.exists /\ IsDictText(file.content) THEN LoadDict(file.content)
    ELSE [case_id |-> None, evidence_id |-> None]

\* The case quick_add_note works on, as an index into the case list (0: none,
\* the command ends with an error): find_case(storage, case_override), or
\* storage.get_case of the pointer's case_id.
TargetCase_ActiveFirst(doc, case_override, state) ==
    IF state.case_id # None
    THEN First([k \in 1 .. Len(doc) |-> doc[k].case_id = state.case_id])
    ELSE First([k \in 1 .. Len(doc) |->
                  doc[k].case_id = case_override \/ doc[k].case_number = case_override])

TargetCase(doc, case_override, state) ==
    IF case_override # None
    THEN First([k \in 1 .. Len(doc) |->
                  doc[k].case_id = case_override \/ doc[k].case_number = case_override])
    ELSE IF state.case_id = None THEN 0
    ELSE First([k \in 1 .. Len(doc) |-> doc[k].case_id = state.case_id])

\* The identifier quick_add_note hands to find_evidence: the evidence override,
\* or the pointer's evidence_id when nothing is overridden, or none.
WantedEvidence(case_override, evidence_override, state) ==
    IF evidence_override # None THEN evidence_override
    ELSE IF case_override = None THEN state.evidence_id
    ELSE None

\* The evidence item the note goes to, as an index into case.evidence (0: the
\* note goes to the case): find_evidence(case, identifier).
TargetEvidence_AnyEvidence(case, identifier) ==
    IF identifier = None \/ Len(case.evidence) = 0 THEN 0 ELSE 1

TargetEvidence(case, identifier) ==
    IF identifier = None THEN 0
    ELSE First([k \in 1 .. Len(case.evidence) |->
                  \/ case.evidence[k].evidence_id = identifier
                  \/ case.evidence[k].name = identifier])

\* cli.quick_add_note(content, case_override, evidence_override) after
\* Storage(); gpg is what the gpg process does if it is started.
quick_add_note(p, content, case_override, evidence_override, gpg) ==
    /\ pc[p] = "body"
    /\ cmd[p] = "add_note"
    /\ LET stale == StaleOutcome(p)
           state == ReadPointer(stale.state)
           settings == get_settings
           i == TargetCase(cases[p], case_override, state)
           note == NewNote(content, Now(p), NewNoteId(p))
           attempt == Get(settings, "pgp_enabled", TRUE)
                         /\ Get(settings, "gpg_key_id", None) # None
           signature == Crypto_sign_content(gpg)
           record == [op |-> "quick_add_note", warning |-> stale.warning,
                      case_override |-> case_override,
                      evidence_override |-> evidence_override,
                      sign |-> IF attempt THEN SignResult(gpg) ELSE "not attempted"]
           \* an error message and sys.exit(1); the validation has been done
           exit == /\ stateFile' = stale.state
                   /\ stateTmp' = IF stale.warning = "" THEN stateTmp ELSE NoFile
                   /\ call' = [call EXCEPT ![p] = [record EXCEPT !.sign = "not attempted"]]
                   /\ Finish(p, "sysexit")
                   /\ UNCHANGED <<dataFile, cases>>
       IN
       IF i = 0
       THEN \* "Error: Case ... not found.", "Error: No active case set." or
            \* "Error: Active case not found in storage."
            exit
       ELSE LET wanted == WantedEvidence(case_override, evidence_override, state)
                j == TargetEvidence(cases[p][i], wanted)
                \* "Warning: Active evidence not found in case." and
                \* set_active(case.case_id, None)
                demoted == evidence_override = None /\ wanted # None /\ j = 0
                signed == IF attempt /\ signature.value # ""
                          THEN [note EXCEPT !.signature = signature.value] ELSE note
                doc == AppendNote(cases[p], i, j, signed)
            IN
            IF evidence_override # None /\ j = 0
            THEN \* "Error: Evidence ... not found in case ..."
                 exit
            ELSE /\ stateFile' = IF demoted THEN Pointer(cases[p][i].case_id, None)
                                 ELSE stale.state
                 /\ stateTmp' = IF demoted \/ stale.warning # "" THEN NoFile ELSE stateTmp
                 /\ call' = [call EXCEPT ![p] = record]
                 /\ IF attempt /\ signature.raises
                    THEN \* the exception leaves quick_add_note and the program
                         /\ pc' = [pc EXCEPT ![p] = "raised"]
                         /\ how' = [how EXCEPT ![p] = signature.value]
                         /\ UNCHANGED <<marker, acquired, elapsed, tries, clean>>
                         /\ UNCHANGED <<dataFile, cases>>
                    ELSE \* the note is appended and storage.save_data() called
                         /\ cases' = [cases EXCEPT ![p] = doc]
                         /\ dataFile' = File(Serialize(doc))
                         /\ Finish(p, "return")
    /\ UNCHANGED <<tmpFile, backupFile, settingsFile, settingsTmp, cmd, before, host,
                   global_active>>

\* TUI.current_view
TuiViews == {"case_list", "case_detail", "evidence_detail", "help"}

\* The screens the TUI of process p can be on: the view, and for the detail
\* views the index of active_case in the case list and of active_evidence in
\* the case (Enter on a list opens any item; `?` opens the help from anywhere).
TuiScreens(p) ==
    {[view |-> v, case |-> 0, evidence |-> 0] :
        v \in TuiViews \ {"case_detail", "evidence_detail"}}
    \cup {[view |-> "case_detail", case |-> i, evidence |-> 0] : i \in 1 .. Len(cases[p])}
    \cup UNION {{[view |-> "evidence_detail", case |-> i, evidence |-> j] :
                   j \in 1 .. Len(cases[p][i].evidence)} : i \in 1 .. Len(cases[p])}

\* The exception of sign_content leaves the TUI, and with it the program.
TuiRaises(p, e) ==
    /\ pc' = [pc EXCEPT ![p] = "raised"]
    /\ how' = [how EXCEPT ![p] = e]
    /\ UNCHANGED <<marker, acquired, elapsed, tries, clean>>

\* The TUI goes on with its loop.
TuiGoesOn(p) == UNCHANGED <<lockVars, how>>

\* TUI.dialog_add_note (key n) on screen s, the user typing content.  call[p]
\* keeps the view and the target of the dialog that created a note, until the
\* next key.
dialog_add_note(p, s, content, gpg) ==
    /\ pc[p] = "body"
    /\ cmd[p] = "tui"
    /\ NewNoteId(p) \notin {n.note_id : n \in NotesOf(cases[p])}
    /\ LET active == global_active[p]
           i0 == First([k \in 1 .. Len(cases[p]) |->
                           cases[p][k].case_id = active.case_id])
           j0 == IF i0 = 0 \/ active.evidence_id = None THEN 0
                 ELSE First([k \in 1 .. Len(cases[p][i0].evidence) |->
                               cases[p][i0].evidence[k].evidence_id = active.evidence_id])
           \* target_case and target_evidence, as indexes
           target == IF s.view \in {"evidence_detail", "case_detail"}
                     THEN <<s.case, s.evidence>>
                     ELSE IF s.view = "case_list" /\ active.case_id # None /\ i0 # 0
                             /\ (active.evidence_id = None \/ j0 # 0)
                     THEN <<i0, j0>>
                     ELSE <<0, 0>>
           settings == get_settings
           pgp_enabled == Get(settings, "pgp_enabled", TRUE)
           signature == Crypto_sign_content(gpg)
           note == NewNote(content, Now(p), NewNoteId(p))
           signed == IF pgp_enabled /\ signature.value # ""
                     THEN [note EXCEPT !.signature = signature.value] ELSE note
           doc == IF target[1] = 0 THEN cases[p]
                  ELSE AppendNote(cases[p], target[1], target[2], signed)
           record == [op |-> "dialog_add_note", view |-> s.view, target |-> target]
       IN
       IF s.view = "case_list" /\ target[1] = 0
       THEN \* "No active case/evidence. Set active context first."
            /\ call' = [call EXCEPT ![p] = NoCall]
            /\ TuiGoesOn(p)
            /\ UNCHANGED <<dataFile, cases>>
       ELSE IF content = ""
       THEN \* "Note content cannot be empty."
            /\ call' = [call EXCEPT ![p] = NoCall]
            /\ TuiGoesOn(p)
            /\ UNCHANGED <<dataFile, cases>>
       ELSE IF pgp_enabled /\ signature.raises
       THEN /\ call' = [call EXCEPT ![p] = record]
            /\ TuiRaises(p, signature.value)
            /\ UNCHANGED <<dataFile, cases>>
       ELSE \* the if/elif chain of appends, then self.storage.save_data()
            /\ call' = [call EXCEPT ![p] = record]
            /\ cases' = [cases EXCEPT ![p] = doc]
            /\ dataFile' = File(Serialize(doc))
            /\ TuiGoesOn(p)
    /\ UNCHANGED <<tmpFile, backupFile, stateFile, smVars, cmd, before, host, global_active>>


\* handle_delete's tests of its copy of the pointer against what it deleted.
ActiveCaseIs_Never(active, case) == FALSE

ActiveCaseIs(active, case) == active.case_id = case.case_id

ActiveEvidenceIs(active, ev) == active.evidence_id = ev.evidence_id

\* TUI.selected_index when d is pressed.
SelectedIndexes == {0}

\* TUI.handle_delete (key d) on screen s with the item at selected_index
\* highlighted, the user confirming.
handle_delete(p, s, selected_index) ==
    /\ pc[p] = "body"
    /\ cmd[p] = "tui"
    /\ s.view \in {"case_list", "case_detail", "evidence_detail"}
    /\ LET active == global_active[p] IN
       IF s.view = "case_list"
       THEN /\ selected_index < Len(cases[p])
            /\ LET case_to_del == cases[p][selected_index + 1]
                   doc == SelectSeq(cases[p], LAMBDA c : c.case_id # case_to_del.case_id)
                   clear == ActiveCaseIs(active, case_to_del)
               IN
               /\ cases' = [cases EXCEPT ![p] = doc]
               /\ dataFile' = File(Serialize(doc))
               /\ stateFile' = IF clear THEN Pointer(None, None) ELSE stateFile
               /\ stateTmp' = IF clear THEN NoFile ELSE stateTmp
               /\ global_active' = IF clear THEN [global_active EXCEPT ![p] = NoActive]
                                    ELSE global_active
               /\ call' = [call EXCEPT ![p] = NoCall]
       ELSE IF s.view = "case_detail"
       THEN LET case == cases[p][s.case]
                idx == selected_index - Len(case.notes)
            IN
            IF selected_index < Len(case.notes)
            THEN LET note_to_del == case.notes[selected_index + 1]
                     doc == [cases[p] EXCEPT ![s.case].notes = Remove(@, note_to_del)]
                 IN
                 /\ cases' = [cases EXCEPT ![p] = doc]
                 /\ dataFile' = File(Serialize(doc))
                 /\ call' = [call EXCEPT ![p] = NoCall]
                 /\ UNCHANGED <<stateFile, stateTmp, global_active>>
            ELSE /\ idx < Len(case.evidence)
                 /\ LET ev_to_del == case.evidence[idx + 1]
                        doc == [cases[p] EXCEPT ![s.case].evidence =
                                   SelectSeq(@, LAMBDA e :
                                                   e.evidence_id # ev_to_del.evidence_id)]
                        demote == ActiveEvidenceIs(active, ev_to_del)
                    IN
                    /\ cases' = [cases EXCEPT ![p] = doc]
                    /\ dataFile' = File(Serialize(doc))
                    /\ stateFile' = IF demote THEN Pointer(case.case_id, None)
                                     ELSE stateFile
                    /\ stateTmp' = IF demote THEN NoFile ELSE stateTmp
                    \* global_active_case_id is left as it is
                    /\ global_active' =
                          IF demote THEN [global_active EXCEPT ![p].evidence_id = None]
                          ELSE global_active
                    /\ call' = [call EXCEPT ![p] = NoCall]
       ELSE LET notes == cases[p][s.case].evidence[s.evidence].notes IN
            /\ selected_index < Len(notes)
            /\ LET note_to_del == notes[selected_index + 1]
                   doc == [cases[p] EXCEPT ![s.case].evidence[s.evidence].notes =
                              Remove(@, note_to_del)]
               IN
               /\ cases' = [cases EXCEPT ![p] = doc]
               /\ dataFile' = File(Serialize(doc))
               /\ call' = [call EXCEPT ![p] = NoCall]
               /\ UNCHANGED <<stateFile, stateTmp, global_active>>
    /\ TuiGoesOn(p)
    /\ UNCHANGED <<tmpFile, backupFile, settingsFile, settingsTmp, cmd, before, host>>

\* Key q outside the help: handle_input returns False, run() and run_tui return.
tui_quit(p) ==
    /\ pc[p] = "body"
    /\ cmd[p] = "tui"
    /\ Finish(p, "return")
    /\ call' = [call EXCEPT ![p] = NoCall]
    /\ UNCHANGED <<fileVars, cases, cmd, before, host, global_active>>

(***************************************************************************)
(* Specifications.                                                         *)
(***************************************************************************)
AppFiles == {NoFile, File(Serialize(<<create_demo_case>>))}

AppInit ==
    /\ tmpFile = NoFile
    /\ backupFile = NoFile
    /\ stateFile = NoFile
    /\ stateTmp = NoFile
    /\ settingsFile = NoFile
    /\ settingsTmp = NoFile
    /\ cases = [p \in Procs |-> <<>>]
    /\ cmd = [p \in Procs |-> "none"]
    /\ how = [p \in Procs |-> "none"]
    /\ before = [p \in Procs |-> NoFile]
    /\ call = [p \in Procs |-> NoCall]
    /\ host = [p \in Procs |-> p]
    /\ global_active = [p \in Procs |-> NoActive]

LockInit ==
    /\ marker \in {NoMarker, MarkerFile(External, GarbageText)}
    /\ pc = [p \in Procs |-> "idle"]
    /\ acquired = [p \in Procs |-> FALSE]
    /\ elapsed = [p \in Procs |-> 0]
    /\ tries = [p \in Procs |-> 0]
    /\ clean = [p \in Procs |-> "no"]

LockNext ==
    \E p \in Procs :
        \/ acquire_call(p)
        \/ acquire_create(p)
        \/ acquire_write(p)
        \/ acquire_probe(p)
        \/ acquire_unlink(p)
        \/ acquire_return(p)
        \/ release(p)
        \/ release_return(p)
        \/ Crash(p)

Init == LockInit /\ AppInit /\ dataFile = NoFile

\* The LockManager used on its own: any process calls acquire() and release().
Next == LockNext /\ UNCHANGED appVars

Spec == Init /\ [][Next]_vars


\* The LockManager on a file system whose calls can fail.
AcquireNext ==
    /\ \E p \in Procs :
          \/ acquire_call(p)
          \/ acquire_create(p)
          \/ acquire_create_error(p)
          \/ acquire_write(p)
          \/ acquire_probe(p)
          \/ \E e \in ProbeErrors : acquire_probe_error(p, e)
          \/ acquire_unlink(p)
          \/ acquire_unlink_error(p)
          \/ acquire_return(p)
          \/ release(p)
          \/ release_return(p)
          \/ Crash(p)
    /\ UNCHANGED appVars

SpecAcquire == Init /\ [][AcquireNext]_vars

\* Processes that each run one command of the program.
AppNext ==
    \/ \E p \in CmdProcs :
          \/ \E c \in StorageCmds \ (NoteCmds \cup ApiCmds \cup CliCmds) : launch(p, c)
          \/ launch_state_only(p)
          \/ (acquire_create(p) /\ UNCHANGED appVars)
          \/ (acquire_write(p) /\ UNCHANGED appVars)
          \/ (acquire_probe(p) /\ UNCHANGED appVars)
          \/ (acquire_unlink(p) /\ UNCHANGED appVars)
          \/ Storage_init(p)
          \/ list_contexts(p)
          \/ \E identifier \in {"demo", "DEMO-2024-001", "nope"} : switch_case(p, identifier)
          \/ \E name \in EvidenceNames : create_evidence(p, name)
          \/ set_active_alone(p, "123", "456")
          \/ process_exit(p)
    \/ corrupt_snapshot

\* One process has built its Storage (first launch: lock held, demo case
\* seeded and saved) and now uses it.
SaveStart ==
    \E w \in CmdProcs :
        /\ marker = MarkerFile(w, PidText(w))
        /\ pc = [p \in Procs |-> IF p = w THEN "ready" ELSE "idle"]
        /\ acquired = [p \in Procs |-> p = w]
        /\ elapsed = [p \in Procs |-> 0]
        /\ tries = [p \in Procs |-> IF p = w THEN 1 ELSE 0]
        /\ clean = [p \in Procs |-> "no"]
        /\ dataFile = File(Serialize(<<create_demo_case>>))
        /\ tmpFile = NoFile
        /\ backupFile = NoFile
        /\ stateFile = NoFile
        /\ stateTmp = NoFile
        /\ settingsFile = NoFile
        /\ settingsTmp = NoFile
        /\ cases = [p \in Procs |-> IF p = w THEN <<create_demo_case>> ELSE <<>>]
        /\ cmd = [p \in Procs |-> IF p = w THEN "session" ELSE "none"]
        /\ how = [p \in Procs |-> "none"]
        /\ before = [p \in Procs |-> IF p = w THEN dataFile ELSE NoFile]
        /\ call = [p \in Procs |-> NoCall]
        /\ host = [p \in Procs |-> p]
        /\ global_active = [p \in Procs |-> NoActive]

SaveNext ==
    \E p \in Procs :
        \/ \E id \in CaseIds : add_case(p, id)
        \/ \E id \in CaseIds \cup {"demo"} : delete_case(p, id)
        \/ delete_evidence(p, "demo", "d1")
        \/ call_return(p)
        \/ start_fresh(p)
        \/ save_data_open(p)
        \/ save_data_write(p)
        \/ save_data_replace(p)
        \/ save_data_io_error(p)
        \/ (cmd[p] = "session" /\ Crash(p) /\ UNCHANGED appVars)

SpecSave == SaveStart /\ [][SaveNext]_vars

\* What data.json can hold when a Storage is built: nothing, snapshots the
\* program wrote, and files that are not a list of case documents.
LoadFiles ==
    {NoFile,
     File(Serialize(<<>>)),
     File(Serialize(<<create_demo_case>>)),
     File(Serialize(<<create_demo_case, NewCase("c1")>>)),
     File(Garbage),
     File(<<[tok |-> "["], [tok |-> "case", val |-> Case_to_dict(create_demo_case)]>>),
     File(<<Number>>),
     File(<<EmptyObject>>),
     File(<<[tok |-> "case", val |-> Case_to_dict(create_demo_case)]>>),
     File(<<[tok |-> "["], Number, [tok |-> "]"]>>),
     File(<<[tok |-> "["], EmptyObject, [tok |-> "]"]>>),
     File(<<[tok |-> "["], [tok |-> "case", val |-> [case_number |-> "T-001"]],
            [tok |-> "]"]>>),
     File(<<[tok |-> "["],
            [tok |-> "case", val |-> [case_id |-> "c1", case_number |-> "c1",
                                      evidence |-> <<[evidence_id |-> "e9"]>>]],
            [tok |-> "]"]>>),
     File(<<[tok |-> "["], [tok |-> "case", val |-> Case_to_dict(create_demo_case)],
            Number,
            [tok |-> "]"]>>)}

LoadStart ==
    /\ LockInit
    /\ marker = NoMarker
    /\ AppInit
    /\ dataFile \in LoadFiles

\* Processes that each build a Storage over the directory and list it.
LoadNext ==
    \E p \in CmdProcs :
        \/ launch(p, "list")
        \/ (acquire_create(p) /\ UNCHANGED appVars)
        \/ (acquire_write(p) /\ UNCHANGED appVars)
        \/ (acquire_probe(p) /\ UNCHANGED appVars)
        \/ (acquire_unlink(p) /\ UNCHANGED appVars)
        \/ Storage_init(p)
        \/ list_contexts(p)
        \/ process_exit(p)

SpecLoad == LoadStart /\ [][LoadNext]_vars

\* Programs that build a Storage over the directory, whatever data.json holds,
\* and call start_fresh() on the object they got.
RecoverNext ==
    \E p \in CmdProcs :
        \/ \* the operator starts a program when the one before has ended
           /\ \A q \in Procs \ {p} : pc[q] \in {"idle", "dead"}
           /\ launch(p, "recover")
        \/ (acquire_create(p) /\ UNCHANGED appVars)
        \/ (acquire_write(p) /\ UNCHANGED appVars)
        \/ (acquire_probe(p) /\ UNCHANGED appVars)
        \/ (acquire_unlink(p) /\ UNCHANGED appVars)
        \/ Storage_init(p)
        \/ Storage_returned(p)
        \/ start_fresh(p)
        \/ save_data_open(p)
        \/ save_data_write(p)
        \/ save_data_replace(p)
        \/ api_return(p)
        \/ process_exit(p)

SpecRecover == LoadStart /\ [][RecoverNext]_vars

\* The snapshot of an earlier session may be there at the start.
AppStart == LockInit /\ AppInit /\ dataFile \in AppFiles

SpecApp == AppStart /\ [][AppNext]_vars

\* The four commands that write the pointer, each a process of its own that
\* takes the lock, runs and exits, or is killed on the way.
CliNext ==
    \E p \in CmdProcs :
        \/ \E c \in {"new_case", "new_evidence", "switch_case", "switch_evidence"} :
              launch(p, c)
        \/ (acquire_create(p) /\ UNCHANGED appVars)
        \/ (acquire_write(p) /\ UNCHANGED appVars)
        \/ (acquire_probe(p) /\ UNCHANGED appVars)
        \/ (acquire_unlink(p) /\ UNCHANGED appVars)
        \/ Storage_init(p)
        \/ create_case(p, "c1")
        \/ create_evidence_save(p, "n1")
        \/ \E identifier \in {"DEMO-2024-001", "u1", "nope"} : switch_case_find(p, identifier)
        \/ \E identifier \in {"d1", "n1", "nope"} : switch_evidence(p, identifier)
        \/ cli_set_active(p)
        \/ (pc[p] = "set_active" /\ Crash(p) /\ UNCHANGED appVars)
        \/ process_exit(p)

SpecCli == AppStart /\ [][CliNext]_vars

\* One process with a Storage (holding the lock) and a StateManager.
StoreStart ==
    /\ SaveStart
    /\ \A p \in CmdProcs : cmd[p] = "session" => \A q \in CmdProcs : p <= q

\* The calls of that process, none of which fails; save_data step by step.
StoreNext ==
    \E p \in Procs :
        \/ \E id \in CaseIds : ~Busy(p) /\ add_case(p, id)
        \/ \E id \in CaseIds \cup {"demo"} : ~Busy(p) /\ delete_case(p, id)
        \/ \E id \in CaseIds \cup {"demo"} : \E e \in EvidenceIds :
              ~Busy(p) /\ delete_evidence(p, id, e)
        \/ (~Busy(p) /\ start_fresh(p))
        \/ (~Busy(p) /\ save_data_open(p))
        \/ (~Busy(p) /\ save_data_write(p))
        \/ (~Busy(p) /\ save_data_replace(p))
        \/ (~Busy(p) /\ call_return(p))
        \/ \E id \in CaseIds \cup {"demo"} : ~Busy(p) /\ call_get_case(p, id)
        \/ \E e \in EvidenceIds : ~Busy(p) /\ call_find_evidence(p, e)
        \/ \E c \in PointerCases : \E e \in PointerEvidence :
              ~Busy(p) /\ set_active(p, c, e)
        \/ (~Busy(p) /\ validate_and_clear_stale(p))
        \/ (~Busy(p) /\ validate_again(p))
        \/ \E w \in CmdProcs : p \notin CmdProcs /\ second_Storage(p, w)
        \/ (acquire_create(p) /\ UNCHANGED appVars)
        \/ (acquire_probe(p) /\ UNCHANGED appVars)
        \/ Storage_init(p)

SpecStore == StoreStart /\ [][StoreNext]_vars


\* What the pointer file can hold when a StateManager is built: nothing, what
\* set_active wrote, an empty file, text that is no JSON, a text cut short,
\* bytes that are no UTF-8.
StateFiles ==
    {NoFile,
     Pointer("demo", "d1"),
     File(<<>>),
     File(Garbage),
     File(SubSeq(Pointer("demo", "d1").content, 1, 2)),
     File(Undecodable)}

SettingsFiles ==
    {NoFile,
     File(DumpDict([pgp_enabled |-> FALSE, gpg_key_id |-> "K1"], SettingKeys)),
     File(Garbage),
     File(Undecodable)}

\* Pairs given to set_active.
Pointers == {<<None, None>>, <<"demo", None>>, <<"demo", "d1">>, <<"c1", "g2">>}

\* A temporary file left by a process that died inside set_active or
\* set_setting.
Leftovers == {NoFile, File(<<[tok |-> "{"]>>)}

StateStart ==
    /\ LockInit
    /\ marker = NoMarker
    /\ dataFile = NoFile
    /\ tmpFile = NoFile
    /\ backupFile = NoFile
    /\ stateFile \in StateFiles
    /\ stateTmp \in Leftovers
    /\ settingsFile \in SettingsFiles
    /\ settingsTmp \in Leftovers
    /\ cases = [p \in Procs |-> <<>>]
    /\ cmd = [p \in Procs |-> "none"]
    /\ how = [p \in Procs |-> "none"]
    /\ before = [p \in Procs |-> NoFile]
    /\ call = [p \in Procs |-> NoCall]
    /\ host = [p \in Procs |-> p]
    /\ global_active = [p \in Procs |-> NoActive]

\* A process that uses a StateManager, and can die at any point.
StateNext ==
    \E p \in CmdProcs :
        \/ StateManager_init(p)
        \/ call_get_active(p)
        \/ call_get_settings(p)
        \/ \E a \in Pointers : set_active_call(p, a[1], a[2])
        \/ \E k \in {"pgp_enabled", "gpg_key_id"} : \E v \in SettingValues(k) :
              set_setting_call(p, k, v)
        \/ sm_open(p)
        \/ sm_write(p)
        \/ sm_replace(p)
        \/ call_return(p)
        \/ (cmd[p] = "session" /\ Crash(p) /\ UNCHANGED appVars)

SpecState == StateStart /\ [][StateNext]_vars

\* The settings files a program started without arguments finds: none, one
\* saved by set_setting, one without the pgp_enabled key, and an unreadable one.
WizardFiles ==
    {NoFile,
     File(DumpDict([pgp_enabled |-> FALSE, gpg_key_id |-> "K1"], SettingKeys)),
     File(DumpDict([gpg_key_id |-> "K1"], <<"gpg_key_id">>)),
     File(Garbage)}

WizardStart ==
    /\ LockInit
    /\ marker = NoMarker
    /\ AppInit
    /\ dataFile = NoFile
    /\ settingsFile \in WizardFiles

\* Processes that use a StateManager: the first-run check of main, and the
\* settings calls.
WizardNext ==
    \E p \in CmdProcs :
        \/ StateManager_init(p)
        \/ \E w \in WizardSettings : check_and_run_wizard(p, w)
        \/ call_get_settings(p)
        \/ \E k \in {"pgp_enabled", "gpg_key_id"} : \E v \in SettingValues(k) :
              set_setting_call(p, k, v)
        \/ sm_open(p)
        \/ sm_write(p)
        \/ sm_replace(p)
        \/ call_return(p)
        \/ (cmd[p] = "session" /\ Crash(p) /\ UNCHANGED appVars)

SpecWizard == WizardStart /\ [][WizardNext]_vars

\* x.to_dict() of the class the value belongs to (tests/test_models.py,
\* test_case_dict: d = c.to_dict()).
to_dict_call(p) ==
    /\ pc[p] = "ready"
    /\ cmd[p] = "test"
    /\ call[p].op = "input"
    /\ call' = [call EXCEPT ![p] =
                   [op |-> "to_dict", class |-> call[p].class, x |-> call[p].x,
                    d |-> CASE call[p].class = "Note" -> Note_to_dict(call[p].x)
                            [] call[p].class = "Evidence" -> Evidence_to_dict(call[p].x)
                            [] call[p].class = "Case" -> Case_to_dict(call[p].x)]]
    /\ UNCHANGED <<lockVars, fileVars, cases, cmd, how, before, host, global_active>>

\* from_dict(d) of the same class (test_case_dict: c2 = Case.from_dict(d)).
from_dict_call(p) ==
    /\ pc[p] = "ready"
    /\ cmd[p] = "test"
    /\ call[p].op = "to_dict"
    /\ call' = [call EXCEPT ![p] =
                   [op |-> "from_dict", class |-> call[p].class, x |-> call[p].x,
                    d |-> call[p].d,
                    y |-> CASE call[p].class = "Note" -> Note_from_dict_result(call[p].d)
                            [] call[p].class = "Evidence" ->
                                   Evidence_from_dict_result(call[p].d)
                            [] call[p].class = "Case" -> Case_from_dict_result(call[p].d)]]
    /\ UNCHANGED <<lockVars, fileVars, cases, cmd, how, before, host, global_active>>



(***************************************************************************)
(* The lock protocol: claims C1 - C6.                                      *)
(***************************************************************************)

\* A live process whose acquire() returned True and that has not released since.
Holds(p) == Alive(p) /\ acquired[p]

\* C1: mutual exclusion - at most one live process at a time has acquire()
\* returned True without having released since.
C1_MutualExclusion == Cardinality({p \in Procs : Holds(p)}) <= 1

\* C2: in a race of two processes (of one user) for an absent marker, the one
\* whose first create attempt succeeded is the only holder: the other does not
\* return True while the winner is alive and has not released.
C2_RaceHasOneWinner ==
    \A p, q \in Procs :
        (p # q /\ CanSignal(q, p) /\ Holds(p) /\ tries[p] = 1) => ~Holds(q)

\* The process that created the marker file is alive.
CreatorAlive == marker.exists /\ marker.creator \in Procs /\ Alive(marker.creator)

\* Process p takes the unlink step of acquire() on an existing marker.
UnlinksStale(p) == pc[p] = "unlink" /\ pc'[p] \in {"create", "retFalse"} /\ marker.exists

\* C3: acquire() unlinks an existing marker only when the process that created
\* it is dead.
C3_ReclaimOnlyDeadOwner == [][\A p \in Procs : UnlinksStale(p) => ~CreatorAlive]_vars

\* C4: a marker naming a dead pid is removed by acquire() without sleeping, and
\* the next create attempt (the second of the call) succeeds and returns True.
\* "The marker" is the one acquire() was called on: clean[p] = "stale" until
\* another process changes the marker file during the call.
C4_StaleReclaimedAtOnce ==
    \A p \in Procs :
        clean[p] = "stale" =>
            /\ elapsed[p] = 0
            /\ pc[p] \in {"create", "probe", "unlink", "write", "retTrue"}
            /\ (pc[p] = "create" /\ tries[p] = 1 => ~marker.exists)
            /\ (pc[p] \in {"write", "retTrue"} => tries[p] = 2)
            /\ (pc[p] = "retTrue" => acquired[p])

C4_Witness == \E p \in Procs : clean[p] = "stale" /\ pc[p] = "retTrue" /\ acquired[p]

\* C5: a marker whose content does not parse as a pid (empty or not a number)
\* is treated as stale: acquire() removes it and acquires on the retry, with no
\* sleep and no timeout.
C5_GarbledReclaimed ==
    \A p \in Procs :
        clean[p] = "garbled" =>
            /\ pc[p] \notin {"retFalse"}
            /\ elapsed[p] = 0
            /\ (pc[p] \in {"unlink", "probe"} => tries[p] = 1)
            /\ (pc[p] = "create" => tries[p] = 0 \/ (tries[p] = 1 /\ ~marker.exists))
            /\ (pc[p] \in {"write", "retTrue"} => tries[p] = 2)
            /\ (pc[p] = "retTrue" => acquired[p])

C5_Witness ==
    \E p \in Procs :
        /\ clean[p] = "garbled" /\ pc[p] = "retTrue" /\ acquired[p]
        /\ marker = MarkerFile(p, PidText(p))

\* Process p takes the release() step.
Releases(p) == pc[p] = "idle" /\ pc'[p] \in {"relDeleted", "relNoop"}

\* C6: release() deletes the marker file exactly when this instance holds the
\* lock (acquired is True) and then clears the flag; on an instance that does
\* not hold it, release() changes neither the marker file nor any flag, whether
\* the marker exists or not.
C6_ReleaseOnlyWhenAcquired ==
    [][\A p \in Procs :
          Releases(p) =>
              IF acquired[p]
              THEN ~marker'.exists /\ ~acquired'[p] /\ pc'[p] = "relDeleted"
              ELSE marker' = marker /\ acquired' = acquired /\ pc'[p] = "relNoop"]_vars

\* An instance that never acquired has released while another process's
\* marker exists and that process holds the lock.
C6_Witness ==
    \E p, q \in Procs :
        /\ pc[p] = "relNoop" /\ Holds(q)
        /\ marker = MarkerFile(q, PidText(q))

(***************************************************************************)
(* The commands of the program: claims C7 - C9, under SpecApp.             *)
(***************************************************************************)
Steps(p) == pc'[p] # pc[p]

\* C7: when acquire() has returned False (the timeout passed), Storage.__init__
\* raises: the process's next step ends the constructor with the lock error,
\* and neither that step nor any later step of the process changes a file or
\* loads or seeds its case list.
C7_LockFailureIsFatal ==
    [][\A p \in Procs :
          /\ (pc[p] = "retFalse" /\ Steps(p)) =>
                 pc'[p] = "raised" /\ how'[p] = "lockfail"
          /\ ((pc[p] = "retFalse" \/ how[p] = "lockfail") /\ Steps(p)) =>
                 fileVars' = fileVars /\ cases'[p] = <<>> /\ cases[p] = <<>>]_vars

\* A constructor has raised the lock error while another process is at work
\* with the lock and the snapshot it seeded.
C7_Witness ==
    \E p, q \in Procs :
        /\ pc[p] = "raised"
        /\ how[p] = "lockfail"
        /\ cases[p] = <<>>
        /\ pc[q] = "body"
        /\ Holds(q)
        /\ dataFile.exists

\* C8: a process that took the lock in Storage() and then ended by return, by
\* sys.exit(1) or by the error raised in the constructor leaves no marker of
\* its own behind.
C8_ReleasedOnEveryExit ==
    \A p \in Procs :
        (pc[p] = "dead" /\ how[p] = "exited") =>
            ~(marker.exists /\ marker.creator = p /\ marker.content = PidText(p))

\* C9: a step that changes the snapshot file or the pointer file is taken by
\* a process that holds the lock.
C9_WritesOnlyByHolder ==
    [][\A p \in Procs :
          (Steps(p) /\ (dataFile' # dataFile \/ stateFile' # stateFile)) =>
              acquired[p]]_vars

(***************************************************************************)
(* save_data: claim C10, under SpecSave.                                   *)
(***************************************************************************)
InSave(p) == pc[p] \in {"save_open", "save_write", "save_replace"}

\* C10: whatever point save_data has reached, and after a crash or an I/O
\* failure at any of its steps, the snapshot file is either exactly the file
\* that was there when save_data was called or the complete text of the new
\* case list; after a failure while opening or writing the temporary file it
\* is the file that was there before.
C10_SnapshotOldOrNew ==
    \A p \in Procs :
        cmd[p] = "session" =>
            /\ dataFile \in {before[p], File(Serialize(cases[p]))}
            /\ dataFile.exists /\ Parses(dataFile.content)
            /\ InSave(p) => dataFile = before[p]
            /\ how[p] \in {"save_open", "save_write"} => dataFile = before[p]

\* A write of the temporary file has failed half-way: the partial text is in
\* data.tmp, the snapshot file differs from the case list in memory.
C10_Witness ==
    \E p \in Procs :
        /\ pc[p] = "ready"
        /\ how[p] = "save_write"
        /\ tmpFile.exists
        /\ Len(tmpFile.content) > 0
        /\ ~Parses(tmpFile.content)
        /\ dataFile # File(Serialize(cases[p]))

(***************************************************************************)
(* Loading the snapshot: claims C11 - C13, under SpecLoad.                 *)
(***************************************************************************)
\* The constructor goes on from a successful acquire(): it loads.
Loads(p) == pc[p] = "retTrue" /\ Steps(p) /\ cmd[p] \in StorageCmds

\* The text is a JSON list whose elements are all complete case documents.
IsCaseList(text) ==
    /\ Len(text) >= 2
    /\ text[1].tok = "["
    /\ text[Len(text)].tok = "]"
    /\ \A i \in 2 .. Len(text) - 1 : Case_from_dict(text[i]) = "ok"

\* C11: when the snapshot file exists and is not a list of case documents, the
\* constructor ends with the corruption error (the error that names the
\* backup), with no case loaded, nothing seeded and the file as it was.  (That
\* the backup then exists is the subject of C12.)
C11_UnreadableIsFatalWithBackup ==
    [][\A p \in Procs :
          (Loads(p) /\ dataFile.exists /\ ~IsCaseList(dataFile.content)) =>
              /\ pc'[p] = "raised"
              /\ how'[p] = "corrupt"
              /\ cases'[p] = <<>>
              /\ dataFile' = dataFile]_vars

\* C12: whenever the constructor ends with the corruption error, the backup
\* file exists and holds the content of the snapshot file.
C12_BackupBeforeError ==
    [][\A p \in Procs :
          (Loads(p) /\ how'[p] = "corrupt") =>
              backupFile'.exists /\ backupFile' = dataFile]_vars

\* C13: built over a directory without snapshot file, the store holds exactly
\* the demonstration case, which has evidence and notes, and the new snapshot
\* file is the text of that one-case list; built over a directory with a
\* snapshot file, the file is not written and the store holds no case that is
\* not in the file.
C13_SeedOnlyWithoutFile ==
    [][\A p \in Procs :
          Loads(p) =>
              IF ~dataFile.exists
              THEN /\ cases'[p] = <<create_demo_case>>
                   /\ Len(cases'[p][1].evidence) > 0
                   /\ Len(cases'[p][1].notes) > 0
                   /\ dataFile'.exists
                   /\ IsCaseList(dataFile'.content)
                   /\ Len(dataFile'.content) = 3
                   /\ dataFile'.content[2].val = create_demo_case
              ELSE /\ dataFile' = dataFile
                   /\ \A i \in 1 .. Len(cases'[p]) :
                         \E j \in 1 .. Len(dataFile.content) :
                             /\ dataFile.content[j].tok = "case"
                             /\ dataFile.content[j].val = cases'[p][i]]_vars

\* A Storage built over a snapshot file that holds the empty list: no case, and
\* the file still holds the empty list.
C13_Witness ==
    \E p \in Procs :
        /\ pc[p] = "body"
        /\ cases[p] = <<>>
        /\ dataFile = File(Serialize(<<>>))

(***************************************************************************)
(* The mutators persist what they did: claim C14, under SpecSave.          *)
(***************************************************************************)
\* The store of p is between two calls and its last saving call returned
\* without error (a call that raised leaves its step name in how[p]).
Settled(p) == cmd[p] = "session" /\ pc[p] = "ready" /\ how[p] = "none"

\* C14: after add_case, delete_case, delete_evidence and start_fresh calls that
\* returned without error, the snapshot file holds the serialization of the
\* store's in-memory case list.
C14_FileEqualsMemory ==
    \A p \in Procs : Settled(p) => dataFile = File(Serialize(cases[p]))

\* A store that added a case and deleted the evidence of the demo case, all
\* calls returned, and the file holds exactly that.
C14_Witness ==
    \E p \in Procs :
        /\ Settled(p)
        /\ Len(cases[p]) = 2
        /\ cases[p][1].case_id = "demo"
        /\ cases[p][1].evidence = <<>>
        /\ dataFile = File(Serialize(cases[p]))

(***************************************************************************)
(* The Storage and StateManager calls: claims C15 - C20, under SpecStore.  *)
(***************************************************************************)
\* Process p makes the call named op in this step.
Calls(p, op) == call[p] = NoCall /\ call'[p].op = op

\* new is old without the elements whose identifier (field key) is id: the
\* other elements are all there, unchanged and in their order.
IsRemoval(old, new, key, id) ==
    LET kept == {i \in 1 .. Len(old) : old[i][key] # id} IN
    /\ Len(new) = Cardinality(kept)
    /\ \A i \in kept : new[Cardinality({j \in kept : j <= i})] = old[i]

C16_LookupsFindAndKeep ==
    [][\A p \in Procs :
          /\ Calls(p, "get_case") =>
                LET id == call'[p].id
                    result == call'[p].result
                    matches == {i \in 1 .. Len(cases[p]) : cases[p][i].case_id = id}
                IN
                /\ pc'[p] = "returned"
                /\ cases' = cases /\ dataFile' = dataFile /\ tmpFile' = tmpFile
                /\ matches = {} => result = <<>>
                /\ matches # {} =>
                      /\ Len(result) = 1
                      /\ result[1].case_id = id
                      /\ \E i \in matches : result[1] = cases[p][i]
          /\ Calls(p, "find_evidence") =>
                LET id == call'[p].id
                    case == call'[p].result[1]
                    evidence == call'[p].result[2]
                    holders == {i \in 1 .. Len(cases[p]) :
                                   \E j \in 1 .. Len(cases[p][i].evidence) :
                                       cases[p][i].evidence[j].evidence_id = id}
                IN
                /\ pc'[p] = "returned"
                /\ cases' = cases /\ dataFile' = dataFile /\ tmpFile' = tmpFile
                /\ holders = {} => case = <<>> /\ evidence = <<>>
                /\ holders # {} =>
                      /\ Len(case) = 1 /\ Len(evidence) = 1
                      /\ evidence[1].evidence_id = id
                      /\ \E i \in holders :
                            /\ case[1] = cases[p][i]
                            /\ \E j \in 1 .. Len(case[1].evidence) :
                                  case[1].evidence[j] = evidence[1]]_vars

\* find_evidence("g2") has returned on a store whose second case holds g2: the
\* owner returned is that second case.
C16_Witness ==
    \E p \in Procs :
        /\ pc[p] = "returned"
        /\ call[p].op = "find_evidence"
        /\ call[p].id = "g2"
        /\ Len(cases[p]) = 2
        /\ call[p].result = <<<<cases[p][2]>>, <<Evidence("g2", "Gun")>>>>

\* C17: a Storage constructed in a process that still has its first Storage
\* over the same directory is constructed successfully: its constructor does
\* not raise.
C17_SecondStorageConstructed ==
    \A q \in Procs : cmd[q] = "second" => pc[q] # "raised"

\* The state read by validate_and_clear_stale in this step.
Validates(p, case_id, evidence_id) ==
    /\ Calls(p, "validate")
    /\ get_active = [case_id |-> case_id, evidence_id |-> evidence_id]

\* What get_active() returns after the step.
ActiveAfter == get_active'

\* C18: validate_and_clear_stale, when the pointer names a case that is not
\* in the store, returns a non-empty warning and leaves both fields absent.
C18_MissingCaseCleared ==
    [][\A p \in Procs : \A c \in PointerCases \ {None} : \A e \in PointerEvidence :
          (Validates(p, c, e) /\ get_case(p, c) = <<>>) =>
              /\ call'[p].warning # ""
              /\ ActiveAfter = [case_id |-> None, evidence_id |-> None]]_vars

\* The pointer named case c1 with evidence d1, the store has no c1: the call
\* returned a warning and the pointer is empty.
C18_Witness ==
    \E p \in Procs :
        /\ pc[p] = "returned"
        /\ call[p].op = "validate"
        /\ call[p].pointer = [case_id |-> "c1", evidence_id |-> "d1"]
        /\ get_case(p, "c1") = <<>>
        /\ call[p].warning # ""
        /\ get_active = [case_id |-> None, evidence_id |-> None]

\* C19: validate_and_clear_stale, when the pointer's case is in the store and
\* the pointer's evidence id is not among the evidence of that case, returns a
\* non-empty warning and leaves the case id with the evidence field absent.
C19_MissingEvidenceDemoted ==
    [][\A p \in Procs : \A c \in PointerCases \ {None} : \A e \in PointerEvidence \ {None} :
          (/\ Validates(p, c, e)
           /\ get_case(p, c) # <<>>
           /\ \A j \in 1 .. Len(get_case(p, c)[1].evidence) :
                 get_case(p, c)[1].evidence[j].evidence_id # e) =>
              /\ call'[p].warning # ""
              /\ ActiveAfter = [case_id |-> c, evidence_id |-> None]]_vars

\* C20: validate_and_clear_stale, when the pointer has an evidence id and no
\* case id, returns a non-empty warning and leaves both fields absent.
C20_EvidenceWithoutCaseCleared ==
    [][\A p \in Procs : \A e \in PointerEvidence \ {None} :
          Validates(p, None, e) =>
              /\ call'[p].warning # ""
              /\ ActiveAfter = [case_id |-> None, evidence_id |-> None]]_vars

\* The pointer had evidence d1 and no case, and d1 is in the store: the call
\* returned a warning and the pointer is empty.
C20_Witness ==
    \E p \in Procs :
        /\ pc[p] = "returned"
        /\ call[p].op = "validate"
        /\ call[p].pointer = [case_id |-> None, evidence_id |-> "d1"]
        /\ Storage_find_evidence(p, "d1")[2] # <<>>
        /\ call[p].warning # ""
        /\ get_active = [case_id |-> None, evidence_id |-> None]

\* The snapshots the note commands start over: none (first launch), and the
\* one an earlier launch seeded.
NoteStores ==
    {NoFile,
     File(Serialize(<<create_demo_case>>))}

\* The pointer files they start over: the demo evidence, a case that is not
\* in the snapshot, an evidence item that is in no case.
NotePointers ==
    {Pointer("demo", "d1"), Pointer("c1", None), Pointer("demo", "zz")}

\* The settings they start over: signing with key K1, signing switched off.
NoteSettings ==
    {File(DumpDict([pgp_enabled |-> TRUE, gpg_key_id |-> "K1"], SettingKeys)),
     File(DumpDict([pgp_enabled |-> FALSE, gpg_key_id |-> "K1"], SettingKeys))}

NoteStart ==
    /\ LockInit
    /\ marker = NoMarker
    /\ dataFile \in NoteStores
    /\ tmpFile = NoFile
    /\ backupFile = NoFile
    /\ stateFile \in NotePointers
    /\ stateTmp = NoFile
    /\ settingsFile \in NoteSettings
    /\ settingsTmp = NoFile
    /\ cases = [p \in Procs |-> <<>>]
    /\ cmd = [p \in Procs |-> "none"]
    /\ how = [p \in Procs |-> "none"]
    /\ before = [p \in Procs |-> NoFile]
    /\ call = [p \in Procs |-> NoCall]
    /\ host = [p \in Procs |-> p]
    /\ global_active = [p \in Procs |-> NoActive]

\* Processes that add a note from the command line or run the TUI.
NoteNext ==
    \E p \in CmdProcs :
        \/ \E c \in NoteCmds :
              \* the user starts a command when the one before has ended, and
              \* opens the TUI once: in process 1
              /\ \A q \in Procs \ {p} : pc[q] \in {"idle", "dead"}
              /\ c = "tui" <=> p = 1
              /\ launch(p, c)
        \/ (acquire_create(p) /\ UNCHANGED appVars)
        \/ (acquire_write(p) /\ UNCHANGED appVars)
        \/ (acquire_probe(p) /\ UNCHANGED appVars)
        \/ (acquire_unlink(p) /\ UNCHANGED appVars)
        \/ Storage_init(p)
        \/ \E content \in Contents : \E gpg \in GpgOutcomes :
              quick_add_note(p, content, None, None, gpg)
        \/ \E s \in TuiScreens(p) : \E content \in Contents \cup {""} :
              \E gpg \in GpgOutcomes : dialog_add_note(p, s, content, gpg)
        \/ \E s \in TuiScreens(p) : \E i \in SelectedIndexes : handle_delete(p, s, i)
        \/ tui_quit(p)
        \/ process_exit(p)

SpecNote == NoteStart /\ [][NoteNext]_vars

\* Sequences over S of at most n elements.

\* The snapshot the overriding commands start over: the demo case and a case
\* with one evidence item.
QuickStores == {File(Serialize(<<create_demo_case, NewCase("c2")>>))}

\* The pointer files they start over: none, evidence of the demo case, a case
\* that is not in the snapshot, an evidence item that is in no case, an evidence
\* item of another case.
QuickPointers ==
    {NoFile, Pointer("demo", "d1"), Pointer("c1", None), Pointer("demo", "zz"),
     Pointer("demo", "g2")}

\* --case IDENTIFIER: not given, a case_number, a case_id, and one that no case has.
CaseOverrides == {None, "DEMO-2024-001", "c2", "c9"}

\* --evidence IDENTIFIER: not given, an evidence_id, a name, and one nothing has.
EvidenceOverrides == {None, "d1", "Gun", "zz"}

QuickStart ==
    /\ LockInit
    /\ marker = NoMarker
    /\ dataFile \in QuickStores
    /\ tmpFile = NoFile
    /\ backupFile = NoFile
    /\ stateFile \in QuickPointers
    /\ stateTmp = NoFile
    /\ settingsFile = NoFile
    /\ settingsTmp = NoFile
    /\ cases = [p \in Procs |-> <<>>]
    /\ cmd = [p \in Procs |-> "none"]
    /\ how = [p \in Procs |-> "none"]
    /\ before = [p \in Procs |-> NoFile]
    /\ call = [p \in Procs |-> NoCall]
    /\ host = [p \in Procs |-> p]
    /\ global_active = [p \in Procs |-> NoActive]

\* trace [--case C] [--evidence E] "text", one command after the other.
QuickNext ==
    \E p \in CmdProcs :
        \/ /\ \A q \in Procs \ {p} : pc[q] \in {"idle", "dead"}
           /\ launch(p, "add_note")
        \/ (acquire_create(p) /\ UNCHANGED appVars)
        \/ (acquire_write(p) /\ UNCHANGED appVars)
        \/ (acquire_probe(p) /\ UNCHANGED appVars)
        \/ (acquire_unlink(p) /\ UNCHANGED appVars)
        \/ Storage_init(p)
        \/ \E content \in Contents : \E c \in CaseOverrides : \E e \in EvidenceOverrides :
              quick_add_note(p, content, c, e, "signed")
        \/ process_exit(p)

SpecQuick == QuickStart /\ [][QuickNext]_vars

SeqUpTo(S, n) == UNION {[1 .. k -> S] : k \in 0 .. n}

\* Note values: every combination of set and default fields.
NoteValues ==
    {[content |-> c, timestamp |-> t, note_id |-> "n1", content_hash |-> h,
      signature |-> s, tags |-> TagExtractor_extract_tags(c), iocs |-> i] :
        c \in {"briefing #Exfil", "imaging completed"}, t \in {1, 2},
        h \in {<<>>, sha256(1, "briefing #Exfil")}, s \in {None, "-----BEGIN PGP"},
        i \in {<<>>, <<"10.0.0.1">>}}

\* Notes that appear inside evidence and cases: one as Note(content=...) leaves
\* it, one hashed and signed.
NestedNotes ==
    {Note("imaging completed", 1, "n1"),
     [NewNote("briefing #Exfil", 2, "n2") EXCEPT !.signature = "-----BEGIN PGP"]}

EvidenceValues ==
    {[Evidence("g2", "Gun") EXCEPT !.description = d, !.metadata = m, !.notes = n] :
        d \in {"", "Primary workstation hard drive"},
        m \in {{}, {<<"source_hash", "a3f5c8b9">>}},
        n \in SeqUpTo(NestedNotes, MaxLen)}

CaseValues ==
    {[Case("c1", "123", e) EXCEPT !.name = a, !.investigator = i, !.notes = n] :
        e \in SeqUpTo(EvidenceValues, 1) \cup {<<Evidence("g2", "Gun"), Evidence("g3", "Knife")>>},
        a \in {"", "Test"}, i \in {"", "Demo User"},
        n \in SeqUpTo(NestedNotes, MaxLen)}

\* A test process holds one value of one of the three classes.
ModelsStart ==
    /\ marker = NoMarker
    /\ acquired = [p \in Procs |-> FALSE]
    /\ elapsed = [p \in Procs |-> 0]
    /\ tries = [p \in Procs |-> 0]
    /\ clean = [p \in Procs |-> "no"]
    /\ dataFile = NoFile
    /\ tmpFile = NoFile
    /\ backupFile = NoFile
    /\ stateFile = NoFile
    /\ stateTmp = NoFile
    /\ settingsFile = NoFile
    /\ settingsTmp = NoFile
    /\ cases = [p \in Procs |-> <<>>]
    /\ how = [p \in Procs |-> "none"]
    /\ before = [p \in Procs |-> NoFile]
    /\ host = [p \in Procs |-> p]
    /\ global_active = [p \in Procs |-> NoActive]
    /\ \E w \in CmdProcs :
          \E class \in {"Note", "Evidence", "Case"} :
              \E x \in CASE class = "Note" -> NoteValues
                         [] class = "Evidence" -> EvidenceValues
                         [] class = "Case" -> CaseValues :
                  /\ pc = [p \in Procs |-> IF p = w THEN "ready" ELSE "idle"]
                  /\ cmd = [p \in Procs |-> IF p = w THEN "test" ELSE "none"]
                  /\ call = [p \in Procs |->
                                IF p = w THEN [op |-> "input", class |-> class, x |-> x]
                                ELSE NoCall]

\* The value is turned into a dict and the dict into a value again.
ModelsNext ==
    \E p \in CmdProcs :
        \/ to_dict_call(p)
        \/ from_dict_call(p)

SpecModels == ModelsStart /\ [][ModelsNext]_vars

(***************************************************************************)
(* The context pointer and the settings: claims C21 - C25.                 *)
(***************************************************************************)
\* C21: validate_and_clear_stale returns the empty warning exactly when it
\* left the state file as it was; called again directly after a call it
\* returns the empty warning and changes nothing; and no call changes the case
\* list of the store or the snapshot file.
C21_WarningIffChanged ==
    [][\A p \in Procs :
          (call'[p] # call[p] /\ call'[p].op \in {"validate", "validate_again"}) =>
              /\ (call'[p].warning = "") <=> (stateFile' = stateFile)
              /\ call'[p].op = "validate_again" =>
                    call'[p].warning = "" /\ stateFile' = stateFile
              /\ cases' = cases
              /\ dataFile' = dataFile
              /\ tmpFile' = tmpFile]_vars

\* A call that warned and cleared the pointer has been followed at once by a
\* second call, which returned the empty warning.
C21_Witness ==
    \E p \in Procs :
        /\ pc[p] = "returned"
        /\ call[p].op = "validate_again"
        /\ call[p].first # ""
        /\ call[p].warning = ""
        /\ get_active = [case_id |-> None, evidence_id |-> None]

\* C22: the state file never holds an evidence id without a case id.
C22_EvidenceImpliesCase ==
    get_active.evidence_id # None => get_active.case_id # None

\* The file holds no text that json.load turns into a dict: it is missing,
\* empty, cut short, no JSON, or no UTF-8.
Unreadable(file) == ~file.exists \/ ~IsDictText(file.content)

\* C23: get_active() never raises; when the state file is missing or its
\* content cannot be parsed, it returns case_id and evidence_id both absent.
C23_GetActiveNeverRaises ==
    [][\A p \in Procs :
          Calls(p, "get_active") =>
              /\ pc'[p] = "returned"
              /\ Unreadable(stateFile) =>
                    call'[p].result = [case_id |-> None, evidence_id |-> None]]_vars

\* Process p is at a step of set_active or set_setting, or has just died or
\* returned there; call[p] has the text being written.
Writing(p, op) ==
    /\ pc'[p] # pc[p]
    /\ pc[p] \in {"ready", "sm_open", "sm_write", "sm_replace"}
    /\ pc'[p] \in {"sm_open", "sm_write", "sm_replace", "returned", "dead"}
    /\ call'[p].op = op

\* C24: when set_active(c, e) has returned, get_active() returns case_id = c
\* and evidence_id = e; and at every point of set_active, resp. set_setting,
\* whether the process goes on or dies there, the state file, resp. the
\* settings file, is either the file that was there at the call or the complete
\* new text.
C24_PointerRoundTripAndAtomic ==
    [][\A p \in Procs :
          /\ Writing(p, "set_active") =>
                /\ stateFile' \in {before'[p], File(call'[p].text)}
                /\ pc'[p] # "returned" => stateFile' = before'[p]
                /\ pc'[p] = "returned" =>
                      /\ get_active'.case_id = call'[p].case_id
                      /\ get_active'.evidence_id = call'[p].evidence_id
          /\ Writing(p, "set_setting") =>
                /\ settingsFile' \in {before'[p], File(call'[p].text)}
                /\ pc'[p] # "returned" => settingsFile' = before'[p]]_vars

\* The process died while set_active("c1", "g2") was writing state.tmp: the
\* state file is the one of before, state.tmp holds a part of the new text.
C24_Witness ==
    \E p \in Procs :
        /\ pc[p] = "dead"
        /\ how[p] = "none"
        /\ call[p].op = "set_active"
        /\ call[p].case_id = "c1"
        /\ stateTmp.exists
        /\ Len(stateTmp.content) = 2
        /\ stateFile = before[p]
        /\ stateFile = Pointer("demo", "d1")

\* C25: get_settings() never raises; when the settings file is missing or
\* cannot be parsed it returns the default settings, signing enabled and no
\* key id.
C25_GetSettingsNeverRaises ==
    [][\A p \in Procs :
          Calls(p, "get_settings") =>
              /\ pc'[p] = "returned"
              /\ Unreadable(settingsFile) =>
                    call'[p].result = [pgp_enabled |-> TRUE]]_vars

(***************************************************************************)
(* The model classes and the notes: claims C26 - C30.                      *)
(***************************************************************************)

\* C26: for every Case, Evidence and Note value x, nested evidence and notes,
\* an absent signature and empty collections included, from_dict(to_dict(x))
\* has the fields of x with the values they have in x.
C26_DictRoundTrip ==
    \A p \in Procs :
        call[p].op = "from_dict" =>
            /\ DOMAIN call[p].y = DOMAIN call[p].x
            /\ \A f \in DOMAIN call[p].x : call[p].y[f] = call[p].x[f]

\* A case with a name, an evidence item that has metadata and a signed note,
\* and no case-level notes has made the round trip.
C26_Witness ==
    \E p \in Procs :
        /\ call[p].op = "from_dict"
        /\ call[p].class = "Case"
        /\ call[p].x.name = "Test"
        /\ call[p].x.notes = <<>>
        /\ Len(call[p].x.evidence) = 1
        /\ call[p].x.evidence[1].metadata # {}
        /\ \E i \in 1 .. Len(call[p].x.evidence[1].notes) :
              call[p].x.evidence[1].notes[i].signature # None
        /\ call[p].y = call[p].x

\* The notes there are: in the case list of a process, and in the snapshot
\* file as a load would build them.
StoredNotes ==
    UNION {NotesOf(cases[p]) : p \in Procs}
    \cup (IF dataFile.exists /\ Parses(dataFile.content)
          THEN UNION {CaseNotes(Case_from_dict_result(c.val)) :
                         c \in {dataFile.content[i] : i \in 2 .. Len(dataFile.content) - 1}}
          ELSE {})

\* What must stay as it is: the note_id with timestamp, content and hash.
Fixed(notes) == {<<n.note_id, n.timestamp, n.content, n.content_hash>> : n \in notes}

\* The notes as they are when they are created: those of the demo seed, and
\* the one each process makes with quick_add_note or the add-note dialog.
AsCreated ==
    Fixed(NotesOf(<<create_demo_case>>))
    \cup {<<NewNoteId(p), Now(p), c, sha256(Now(p), c)>> : p \in CmdProcs, c \in Contents}

\* C27: every note, whether made by quick_add_note, by the add-note dialog of
\* the TUI or by the demo seed, has as content_hash the digest of its timestamp
\* and content, and whatever was saved, loaded, added and deleted since, in
\* memory and in the snapshot its timestamp, content and content_hash are
\* those it was created with.
C27_HashFixedAtCreation ==
    \A x \in Fixed(StoredNotes) :
        /\ x[4] = sha256(x[2], x[3])
        /\ x \in AsCreated

\* The TUI has loaded a snapshot that holds a note added from the command
\* line, has deleted the first demo note and added a note of its own; the
\* second demo note is still there and the snapshot is saved.
C27_Witness ==
    \E p \in Procs :
        /\ pc[p] = "body"
        /\ cmd[p] = "tui"
        /\ {"n2", "p1", "p2"} \subseteq {n.note_id : n \in NotesOf(cases[p])}
        /\ "n1" \notin {n.note_id : n \in NotesOf(cases[p])}
        /\ dataFile = File(Serialize(cases[p]))

\* Where the note with this note_id is in a case list: <<i, 0, k>> for the k-th
\* case-level note of case i, <<i, j, k>> for the k-th note of its evidence j.
Owners(doc, note_id) ==
    UNION {{<<i, 0, k>> : k \in {k \in 1 .. Len(doc[i].notes) :
                                   doc[i].notes[k].note_id = note_id}} :
              i \in 1 .. Len(doc)}
    \cup UNION {UNION {{<<i, j, k>> :
                          k \in {k \in 1 .. Len(doc[i].evidence[j].notes) :
                                    doc[i].evidence[j].notes[k].note_id = note_id}} :
                      j \in 1 .. Len(doc[i].evidence)} : i \in 1 .. Len(doc)}

\* Process p goes through an add-note operation that creates a note:
\* quick_add_note returns, or the dialog of the TUI has the content and saves.
AddsNote(p) ==
    /\ pc[p] = "body"
    /\ \/ cmd[p] = "add_note" /\ pc'[p] = "returned"
       \/ cmd[p] = "tui" /\ pc'[p] = "body" /\ call'[p].op = "dialog_add_note"

\* C28: in every store state each note is in exactly one notes collection, of
\* one evidence item or of one case, and every add-note operation puts the
\* note it creates into exactly one such collection.
C28_ExactlyOneOwner ==
    [][\A p \in Procs :
          /\ \A n \in NotesOf(cases'[p]) :
                Cardinality(Owners(cases'[p], n.note_id)) = 1
          /\ AddsNote(p) =>
                /\ Owners(cases[p], NewNoteId(p)) = {}
                /\ Cardinality(Owners(cases'[p], NewNoteId(p))) = 1]_vars

\* quick_add_note of process p runs, to its return, its exit or its exception.
QuickAdds(p) == pc[p] = "body" /\ cmd[p] = "add_note" /\ pc'[p] # "body"

\* C29: when signing is enabled and the signing service fails, quick_add_note
\* still returns with the note appended, unsigned, and the snapshot saved; and
\* the note has a signature only when the service returned a non-empty one.
C29_SigningFailureNotFatal ==
    [][\A p \in Procs :
          QuickAdds(p) =>
              /\ call'[p].sign \in {"failed", "raised"} =>
                    /\ pc'[p] = "returned"
                    /\ \E n \in NotesOf(cases'[p]) :
                          n.note_id = NewNoteId(p) /\ n.signature = None
                    /\ dataFile' = File(Serialize(cases'[p]))
              /\ \A n \in NotesOf(cases'[p]) :
                    (n.note_id = NewNoteId(p) /\ n.signature # None) =>
                        call'[p].sign = "signed"]_vars

\* The pointer names a case that is not in the case list of p.
DeletedCase(p) == get_active.case_id # None /\ get_case(p, get_active.case_id) = <<>>

\* The pointer names a case that is there and an evidence item that is in no case.
DeletedEvidence(p) ==
    /\ get_active.case_id # None
    /\ get_case(p, get_active.case_id) # <<>>
    /\ get_active.evidence_id # None
    /\ Storage_find_evidence(p, get_active.evidence_id)[2] = <<>>

\* C30: when the pointer names a deleted case or a deleted evidence item,
\* quick_add_note without overrides gets the warning of the validation, the
\* pointer is corrected, and the command goes on to its end: it returns with
\* the note added and saved (the signing service not raising).
C30_DanglingPointerNotFatal ==
    [][\A p \in Procs :
          (QuickAdds(p) /\ (DeletedCase(p) \/ DeletedEvidence(p))
              /\ call'[p].sign # "raised") =>
              /\ call'[p].warning # ""
              /\ stateFile' # stateFile
              /\ pc'[p] = "returned"
              /\ NewNoteId(p) \in {n.note_id : n \in NotesOf(cases'[p])}
              /\ dataFile' = File(Serialize(cases'[p]))]_vars

(***************************************************************************)
(* The lock under failing system calls, start fresh, overrides, the delete *)
(* key, the wizard and the order of the writes: claims C31 - C40.          *)
(***************************************************************************)
\* C31: acquire(timeout) always ends by returning True or False and never by
\* raising: no call of acquire() is left through an exception, whatever the
\* system calls on the marker do, and a call that returns False leaves the
\* instance's acquired flag False.
C31_AcquireNeverRaises ==
    \A p \in Procs :
        /\ pc[p] # "raised"
        /\ pc[p] = "retFalse" => ~acquired[p]

C33_StartFreshAfterCorruption ==
    \A p \in CmdProcs :
        (pc[p] = "raised" /\ how[p] = "corrupt") => ENABLED start_fresh(p)

\* Where the note with this note_id is, by the ids of its owners: <<case_id,
\* None>> for a case-level note, <<case_id, evidence_id>> for a note of evidence.
OwnerIds(doc, note_id) ==
    {<<doc[o[1]].case_id,
       IF o[2] = 0 THEN None ELSE doc[o[1]].evidence[o[2]].evidence_id>> :
        o \in Owners(doc, note_id)}

\* quick_add_note of process p runs with a case or an evidence override.
Overrides(p) ==
    /\ QuickAdds(p)
    /\ call'[p].case_override # None \/ call'[p].evidence_override # None

\* The cases the command of process p chooses from, given the pointer: those
\* the case override finds, or the one the pointer names.
ChosenCase(p, case_override, state) ==
    IF case_override # None THEN find_case(p, case_override)
    ELSE IF state.case_id = None THEN <<>>
    ELSE get_case(p, state.case_id)

\* The overrides name a target: a case is chosen, and the evidence override,
\* if given, is found in it.
Named(p, case_override, evidence_override, state) ==
    /\ ChosenCase(p, case_override, state) # <<>>
    /\ evidence_override # None =>
          find_evidence(ChosenCase(p, case_override, state)[1], evidence_override) # <<>>

\* The ids of the target the overrides name.
NamedIds(p, case_override, evidence_override, state) ==
    <<ChosenCase(p, case_override, state)[1].case_id,
      IF evidence_override = None THEN None
      ELSE find_evidence(ChosenCase(p, case_override, state)[1],
                         evidence_override)[1].evidence_id>>

CaseIdsOf(doc) == {doc[i].case_id : i \in 1 .. Len(doc)}

EvidenceOf(doc) ==
    UNION {{<<doc[i].case_id, doc[i].evidence[j].evidence_id>> :
              j \in 1 .. Len(doc[i].evidence)} : i \in 1 .. Len(doc)}

\* What a key of the TUI of process p removes in this step: cases, and evidence
\* items of cases that stay.
RemovedCases(p) == CaseIdsOf(cases[p]) \ CaseIdsOf(cases'[p])

RemovedEvidence(p) ==
    {x \in EvidenceOf(cases[p]) \ EvidenceOf(cases'[p]) : x[1] \in CaseIdsOf(cases'[p])}

ChecksWizard(p) == pc[p] = "ready" /\ call'[p].op = "check_and_run_wizard"

\* C36: check_and_run_wizard runs the wizard on first run, when there is no
\* settings file: it then persists each setting the wizard returned and returns
\* True; and it returns False only when a settings file was there before.
C36_WizardOnFirstRun ==
    [][\A p \in Procs :
          ChecksWizard(p) =>
              /\ ~settingsFile.exists =>
                    /\ call'[p].ran
                    /\ call'[p].result
                    /\ get_settings' \in WizardSettings
              /\ ~call'[p].result => settingsFile.exists]_vars

\* release() of process p unlinks a marker file.
ReleaseRemoves(p) == pc[p] = "idle" /\ pc'[p] = "relDeleted" /\ marker.exists

\* C37: in no interleaving does release() by one process remove a marker file
\* created by a different process that is still alive and has not released.
C37_ReleaseRemovesOwnMarker ==
    [][\A p \in Procs :
          ReleaseRemoves(p) =>
              ~(/\ marker.creator \in Procs \ {p}
                /\ Alive(marker.creator)
                /\ acquired[marker.creator])]_vars

\* The persist step of add_case, delete_case or delete_evidence of process p
\* fails with an I/O error.
FailedMutation(p) ==
    /\ pc[p] \in {"save_open", "save_write", "save_replace"}
    /\ call[p].op \in {"add_case", "delete_case", "delete_evidence"}
    /\ pc'[p] = "ready"
    /\ how'[p] # "none"

NamesPersisted(state, doc) ==
    state.case_id # None =>
        /\ state.case_id \in CaseIdsOf(doc)
        /\ state.evidence_id # None => <<state.case_id, state.evidence_id>> \in EvidenceOf(doc)

\* C39: create_case, create_evidence, switch_case and switch_evidence write the
\* pointer only after what it names is in the persisted snapshot: at every step,
\* a crash between the save and the pointer write included, the pointer names a
\* case present in data.json and, when evidence is set, an evidence item of
\* that case.
C39_PointerNamesPersisted ==
    get_active.case_id # None =>
        /\ dataFile.exists
        /\ Parses(dataFile.content)
        /\ NamesPersisted(get_active, Parse(dataFile.content))

\* quick_add_note of process p runs without overrides.
NoOverrides(p) ==
    /\ QuickAdds(p)
    /\ call'[p].case_override = None
    /\ call'[p].evidence_override = None

\* C40: quick_add_note without overrides appends the note to the active
\* evidence only if that evidence belongs to the active case; if the pointer's
\* evidence is not found in the active case the note goes to the case-level
\* notes of the active case and the pointer becomes (that case, absent); the
\* note is never appended under a case other than the active case.
C40_NoteStaysInActiveCase ==
    [][\A p \in Procs :
          NoOverrides(p) =>
              LET active == get_active
                  owners == OwnerIds(cases'[p], NewNoteId(p))
                  belongs == <<active.case_id, active.evidence_id>> \in EvidenceOf(cases[p])
              IN
              /\ \A o \in owners : o[1] = active.case_id
              /\ \A o \in owners : o[2] # None => (o[2] = active.evidence_id /\ belongs)
              /\ (/\ active.case_id \in CaseIdsOf(cases[p])
                  /\ active.evidence_id # None
                  /\ ~belongs) =>
                    /\ owners = {<<active.case_id, None>>}
                    /\ get_active' = [case_id |-> active.case_id, evidence_id |-> None]]_vars

\* The first command, run without overrides on the pointer (demo case, evidence
\* g2 of case c2), has returned: no warning of the validation, the note is in
\* the notes of the demo case and the pointer names the demo case alone.
C40_Witness ==
    \E p \in Procs :
        /\ pc[p] = "returned"
        /\ call[p].op = "quick_add_note"
        /\ call[p].case_override = None
        /\ call[p].evidence_override = None
        /\ call[p].warning = ""
        /\ \A q \in Procs \ {p} : cmd[q] = "none"
        /\ get_active = [case_id |-> "demo", evidence_id |-> None]
        /\ OwnerIds(cases[p], NewNoteId(p)) = {<<"demo", None>>}

====
